---- MODULE Spec2Model ----
(***************************************************************************)
(* Verification model of the Chess-AI engine core.                         *)
(*                                                                         *)
(*   Position layer : src/engine/board.py                                  *)
(*   Move generator : src/backend/engine/moves.py                          *)
(*   Transposition  : src/engine/transposition.py                          *)
(*   Search         : src/backend/engine/search.py                         *)
(*                                                                         *)
(* A bitboard (uint64) is modelled as the set of its set bit indices, so   *)
(* set_bit is union, clear_bit is set difference and | is \cup.            *)
(* A Zobrist hash is modelled as the set of the identifiers of the keys    *)
(* XOR-ed into it (XOR of keys = symmetric difference of identifier        *)
(* sets; the hash 0 is the empty set): two hashes are equal in the model   *)
(* iff they are equal for linearly independent keys.                       *)
(* The metadata word is kept as the packed integer of pack_metadata.       *)
(***************************************************************************)
EXTENDS Integers, Sequences, FiniteSets, TLC

\* ------------------------------------------------------------------------
\* Constants of board.py
\* ------------------------------------------------------------------------
WP == 0
WN == 1
WB == 2
WR == 3
WQ == 4
WK == 5
BP == 6
BN == 7
BB == 8
BR == 9
BQ == 10
BK == 11

FLAG_NORMAL == 0
FLAG_PROMOTION_QUEEN == 1
FLAG_PROMOTION_ROOK == 2
FLAG_PROMOTION_BISHOP == 3
FLAG_PROMOTION_KNIGHT == 4
FLAG_CASTLING_KINGSIDE == 5
FLAG_CASTLING_QUEENSIDE == 6
FLAG_EN_PASSANT == 7

CASTLE_WK == 1
CASTLE_WQ == 2
CASTLE_BK == 4
CASTLE_BQ == 8
CASTLE_ALL == 15

A8 == 0
B8 == 1
C8 == 2
D8 == 3
E8 == 4
F8 == 5
G8 == 6
H8 == 7
A1 == 56
B1 == 57
C1 == 58
D1 == 59
E1 == 60
F1 == 61
G1 == 62
H1 == 63

Squares == 0..63
PieceIdx == 0..11

\* ------------------------------------------------------------------------
\* Small integer helpers
\* ------------------------------------------------------------------------
Abs(x) == IF x < 0 THEN -x ELSE x

Max(a, b) == IF a >= b THEN a ELSE b

Min(a, b) == IF a <= b THEN a ELSE b

\* bit b of the non-negative integer x
BitOf(x, b) == (x \div (2 ^ b)) % 2

\* the 4-bit value c & ~m, for m one of the CASTLE_* masks or a sum of them
AndNot4(c, m) ==
    (IF BitOf(c, 0) = 1 /\ BitOf(m, 0) = 0 THEN 1 ELSE 0)
  + (IF BitOf(c, 1) = 1 /\ BitOf(m, 1) = 0 THEN 2 ELSE 0)
  + (IF BitOf(c, 2) = 1 /\ BitOf(m, 2) = 0 THEN 4 ELSE 0)
  + (IF BitOf(c, 3) = 1 /\ BitOf(m, 3) = 0 THEN 8 ELSE 0)

\* ascending sequence of the elements of a finite set of integers
SortedSeq(S) ==
    [i \in 1..Cardinality(S) |->
        CHOOSE x \in S : Cardinality({ y \in S : y < x }) = i - 1]

\* concatenation of f[1] \o f[2] \o ... for a sequence of sequences
RECURSIVE ConcatRange(_, _, _)
ConcatRange(ss, lo, hi) ==
    IF lo > hi THEN << >>
    ELSE IF lo = hi THEN ss[lo]
    ELSE LET mid == (lo + hi) \div 2
         IN  ConcatRange(ss, lo, mid) \o ConcatRange(ss, mid + 1, hi)

Concat(ss) == ConcatRange(ss, 1, Len(ss))

\* the elements of a sequence
Range(s) == { s[i] : i \in 1..Len(s) }

\* ------------------------------------------------------------------------
\* Bitboard utilities (board.py 75-111)
\* ------------------------------------------------------------------------
set_bit(bb, square) == bb \cup {square}

clear_bit(bb, square) == bb \ {square}

get_bit(bb, square) == square \in bb

pop_count(bb) == Cardinality(bb)

\* index of the least significant set bit, -1 for the empty bitboard
lsb(bb) == IF bb = {} THEN -1 ELSE CHOOSE x \in bb : \A y \in bb : x <= y

\* ------------------------------------------------------------------------
\* Squares and moves (board.py 118-144)
\* ------------------------------------------------------------------------
RowOf(square) == square \div 8

ColOf(square) == square % 8

coords_to_square(row, col) == row * 8 + col

encode_move(from_sq, to_sq, flags) == flags * 4096 + to_sq * 64 + from_sq

decode_move(move) ==
    [from_sq |-> move % 64, to_sq |-> (move \div 64) % 64, flags |-> move \div 4096]

\* ------------------------------------------------------------------------
\* Metadata packing (board.py 151-178)
\*   castling(4) | ep+1 (7) << 4 | halfmove(9) << 11 | side(1) << 20
\* ------------------------------------------------------------------------
pack_metadata(castling, ep_square, halfmove, side) ==
      (castling % 16)
    + ((ep_square + 1) % 128) * 16
    + (halfmove % 512) * 2048
    + (side % 2) * 1048576

unpack_castling(meta) == meta % 16

unpack_ep_square(meta) == ((meta \div 16) % 128) - 1

unpack_halfmove(meta) == (meta \div 2048) % 512

unpack_side(meta) == (meta \div 1048576) % 2

\* ------------------------------------------------------------------------
\* Attack tables (board.py 185-252)
\* ------------------------------------------------------------------------
KnightOffsets ==
    { <<-2, -1>>, <<-2, 1>>, <<-1, -2>>, <<-1, 2>>, <<1, -2>>, <<1, 2>>, <<2, -1>>, <<2, 1>> }

KingOffsets ==
    { <<-1, -1>>, <<-1, 0>>, <<-1, 1>>, <<0, -1>>, <<0, 1>>, <<1, -1>>, <<1, 0>>, <<1, 1>> }

LeaperAttacks(sq, offsets) ==
    { coords_to_square(RowOf(sq) + o[1], ColOf(sq) + o[2]) :
        o \in { p \in offsets : /\ RowOf(sq) + p[1] \in 0..7
                                /\ ColOf(sq) + p[2] \in 0..7 } }

KNIGHT_ATTACKS == [sq \in Squares |-> LeaperAttacks(sq, KnightOffsets)]

KING_ATTACKS == [sq \in Squares |-> LeaperAttacks(sq, KingOffsets)]

\* PAWN_ATTACKS[color][sq]: white pawns attack upward (row - 1), black downward
PAWN_ATTACKS ==
    [color \in 0..1 |->
      [sq \in Squares |->
        IF color = 0
        THEN IF RowOf(sq) > 0
             THEN { coords_to_square(RowOf(sq) - 1, c) :
                      c \in { ColOf(sq) - 1, ColOf(sq) + 1 } \cap (0..7) }
             ELSE {}
        ELSE IF RowOf(sq) < 7
             THEN { coords_to_square(RowOf(sq) + 1, c) :
                      c \in { ColOf(sq) - 1, ColOf(sq) + 1 } \cap (0..7) }
             ELSE {} ]]

\* ------------------------------------------------------------------------
\* Sliding attacks by ray walking (board.py 259-346): every square of the
\* ray up to and including the first occupied one.
\* ------------------------------------------------------------------------
\* the squares of the ray from sq in direction (dr, dc), nearest first
RaySeq(sq, dr, dc) ==
    LET n == CHOOSE k \in 0..7 :
               /\ \A i \in 1..k : /\ RowOf(sq) + i * dr \in 0..7
                                  /\ ColOf(sq) + i * dc \in 0..7
               /\ ~ ( /\ RowOf(sq) + (k + 1) * dr \in 0..7
                      /\ ColOf(sq) + (k + 1) * dc \in 0..7 )
    IN  [i \in 1..n |-> coords_to_square(RowOf(sq) + i * dr, ColOf(sq) + i * dc)]

RookDirs == << <<-1, 0>>, <<1, 0>>, <<0, -1>>, <<0, 1>> >>

BishopDirs == << <<-1, -1>>, <<-1, 1>>, <<1, -1>>, <<1, 1>> >>

ROOK_RAYS == [sq \in Squares |-> [d \in 1..4 |-> RaySeq(sq, RookDirs[d][1], RookDirs[d][2])]]

BISHOP_RAYS == [sq \in Squares |-> [d \in 1..4 |-> RaySeq(sq, BishopDirs[d][1], BishopDirs[d][2])]]

RayAttacks(ray, occupied) ==
    { ray[i] : i \in { k \in 1..Len(ray) : \A j \in 1..(k - 1) : ray[j] \notin occupied } }

rook_attacks(square, occupied) ==
    UNION { RayAttacks(ROOK_RAYS[square][d], occupied) : d \in 1..4 }

bishop_attacks(square, occupied) ==
    UNION { RayAttacks(BISHOP_RAYS[square][d], occupied) : d \in 1..4 }

queen_attacks(square, occupied) ==
    rook_attacks(square, occupied) \cup bishop_attacks(square, occupied)

\* ------------------------------------------------------------------------
\* Zobrist hashing (board.py 789-899).  A key is named by its index in the
\* concatenation pieces[12][64] | castling[16] | ep[8] | side.
\* ------------------------------------------------------------------------
ZOBRIST_PIECES(piece_idx, sq) == piece_idx * 64 + sq

ZOBRIST_CASTLING(castling) == 768 + castling

ZOBRIST_EP(ep_file) == 784 + ep_file

ZOBRIST_SIDE == 792

\* hash_val ^= key
Xor(hash_val, key) == IF key \in hash_val THEN hash_val \ {key} ELSE hash_val \cup {key}

compute_zobrist_hash(bb, meta) ==
    LET pieces  == { ZOBRIST_PIECES(p, sq) : <<p, sq>> \in { x \in PieceIdx \X Squares : x[2] \in bb[x[1]] } }
        h1      == Xor(pieces, ZOBRIST_CASTLING(unpack_castling(meta)))
        ep_sq   == unpack_ep_square(meta)
        h2      == IF ep_sq >= 0 THEN Xor(h1, ZOBRIST_EP(ep_sq % 8)) ELSE h1
    IN  IF unpack_side(meta) = 1 THEN Xor(h2, ZOBRIST_SIDE) ELSE h2

update_hash_piece_move(hash_val, piece_idx, from_sq, to_sq) ==
    Xor(Xor(hash_val, ZOBRIST_PIECES(piece_idx, from_sq)), ZOBRIST_PIECES(piece_idx, to_sq))

update_hash_piece_add(hash_val, piece_idx, sq) == Xor(hash_val, ZOBRIST_PIECES(piece_idx, sq))

update_hash_piece_remove(hash_val, piece_idx, sq) == Xor(hash_val, ZOBRIST_PIECES(piece_idx, sq))

update_hash_castling(hash_val, old_castling, new_castling) ==
    Xor(Xor(hash_val, ZOBRIST_CASTLING(old_castling)), ZOBRIST_CASTLING(new_castling))

\* a plausible slip: the key of the expiring en-passant file is left in the hash
update_hash_ep_keeps_old(hash_val, old_ep, new_ep) ==
    IF new_ep >= 0 THEN Xor(hash_val, ZOBRIST_EP(new_ep % 8)) ELSE hash_val

update_hash_ep(hash_val, old_ep, new_ep) ==
    LET h1 == IF old_ep >= 0 THEN Xor(hash_val, ZOBRIST_EP(old_ep % 8)) ELSE hash_val
    IN  IF new_ep >= 0 THEN Xor(h1, ZOBRIST_EP(new_ep % 8)) ELSE h1

update_hash_side(hash_val) == Xor(hash_val, ZOBRIST_SIDE)

\* ------------------------------------------------------------------------
\* Position state.  A state is the record
\*   [bb |-> the twelve piece bitboards, occ |-> state[OCCUPIED],
\*    meta |-> state[META], hash |-> state[HASH]]
\* ------------------------------------------------------------------------
UnionBB(bb) == UNION { bb[i] : i \in PieceIdx }

\* get_piece_at (board.py 395-406): the loop tests white then black for each
\* piece type in turn and returns the first hit, (-1, -1) on an empty square
get_piece_at(state, square) ==
    LET hits == { k \in 0..11 :
                    square \in state.bb[IF k % 2 = 0 THEN k \div 2 ELSE (k \div 2) + 6] }
    IN  IF hits = {} THEN [type |-> -1, color |-> -1]
        ELSE LET k == CHOOSE x \in hits : \A y \in hits : x <= y
             IN  [type |-> k \div 2, color |-> k % 2]

\* state[idx] = clear_bit(state[idx], from_sq); state[idx] = set_bit(state[idx], to_sq).
\* An index outside 0..11 (the moving piece was not found) addresses a slot of
\* the state array that is not a piece bitboard.
MovePiece(bb, idx, from_sq, to_sq) ==
    IF idx \in PieceIdx THEN [bb EXCEPT ![idx] = set_bit(clear_bit(@, from_sq), to_sq)] ELSE bb

\* promo_types = [0, 4, 3, 2, 1] indexed by the promotion flag
promo_types(flags) == IF flags = 0 THEN 0 ELSE 5 - flags

\* a plausible slip: the rights are updated for the piece that moves only,
\* a captured rook is forgotten
UpdateCastlingRightsMoverOnly(castling, piece_type, color, from_sq, to_sq, cap_type) ==
    IF piece_type = 5
    THEN IF color = 0 THEN AndNot4(castling, CASTLE_WK + CASTLE_WQ)
                      ELSE AndNot4(castling, CASTLE_BK + CASTLE_BQ)
    ELSE IF piece_type = 3
    THEN IF color = 0
         THEN IF from_sq = A1 THEN AndNot4(castling, CASTLE_WQ)
              ELSE IF from_sq = H1 THEN AndNot4(castling, CASTLE_WK)
              ELSE castling
         ELSE IF from_sq = A8 THEN AndNot4(castling, CASTLE_BQ)
              ELSE IF from_sq = H8 THEN AndNot4(castling, CASTLE_BK)
              ELSE castling
    ELSE castling

\* castling rights after the move (board.py 508-535)
UpdateCastlingRights(castling, piece_type, color, from_sq, to_sq, cap_type) ==
    LET c1 == IF piece_type = 5
              THEN IF color = 0 THEN AndNot4(castling, CASTLE_WK + CASTLE_WQ)
                                ELSE AndNot4(castling, CASTLE_BK + CASTLE_BQ)
              ELSE IF piece_type = 3
              THEN IF color = 0
                   THEN IF from_sq = A1 THEN AndNot4(castling, CASTLE_WQ)
                        ELSE IF from_sq = H1 THEN AndNot4(castling, CASTLE_WK)
                        ELSE castling
                   ELSE IF from_sq = A8 THEN AndNot4(castling, CASTLE_BQ)
                        ELSE IF from_sq = H8 THEN AndNot4(castling, CASTLE_BK)
                        ELSE castling
              ELSE castling
    IN  IF cap_type = 3
        THEN IF to_sq = A1 THEN AndNot4(c1, CASTLE_WQ)
             ELSE IF to_sq = H1 THEN AndNot4(c1, CASTLE_WK)
             ELSE IF to_sq = A8 THEN AndNot4(c1, CASTLE_BQ)
             ELSE IF to_sq = H8 THEN AndNot4(c1, CASTLE_BK)
             ELSE c1
        ELSE c1

\* a plausible slip: the square the pawn lands on, not the one it skipped
NewEpSquareLanding(piece_type, from_sq, to_sq) ==
    IF piece_type = 0 /\ Abs(to_sq - from_sq) = 16 THEN to_sq ELSE -1

\* en-passant square after the move (board.py 537-541)
NewEpSquare(piece_type, from_sq, to_sq) ==
    IF piece_type = 0 /\ Abs(to_sq - from_sq) = 16 THEN (from_sq + to_sq) \div 2 ELSE -1

\* halfmove clock after the move, before packing (board.py 543-547)
NewHalfmove(halfmove, piece_type, cap_type) ==
    IF piece_type = 0 \/ cap_type >= 0 THEN 0 ELSE halfmove + 1

\* make_move_numba (board.py 413-568): the state after the move and the
\* undo record [old_meta, captured_piece_type, captured_color, old_hash]
make_move_numba(state, move) ==
    LET from_sq    == decode_move(move).from_sq
        to_sq      == decode_move(move).to_sq
        flags      == decode_move(move).flags
        piece_type == get_piece_at(state, from_sq).type
        color      == get_piece_at(state, from_sq).color
        piece_idx  == IF color = 0 THEN piece_type ELSE piece_type + 6
        cap_type   == get_piece_at(state, to_sq).type
        cap_color  == get_piece_at(state, to_sq).color
        cap_idx    == IF cap_color = 0 THEN cap_type ELSE cap_type + 6
        undo_info  == [meta |-> state.meta, cap_type |-> cap_type,
                       cap_color |-> cap_color, hash |-> state.hash]
        \* captures
        bb1        == IF cap_type >= 0
                      THEN [state.bb EXCEPT ![cap_idx] = clear_bit(@, to_sq)]
                      ELSE state.bb
        h1         == IF cap_type >= 0
                      THEN update_hash_piece_remove(state.hash, cap_idx, to_sq)
                      ELSE state.hash
        castling   == unpack_castling(state.meta)
        ep_square  == unpack_ep_square(state.meta)
        halfmove   == unpack_halfmove(state.meta)
        side       == unpack_side(state.meta)
        rook_idx   == IF color = 0 THEN WR ELSE BR
        \* special moves
        bbh        ==
            IF flags = FLAG_CASTLING_KINGSIDE
            THEN LET rook_from == IF color = 0 THEN H1 ELSE H8
                     rook_to   == IF color = 0 THEN F1 ELSE F8
                 IN  [bb |-> MovePiece(MovePiece(bb1, piece_idx, from_sq, to_sq),
                                       rook_idx, rook_from, rook_to),
                      h  |-> update_hash_piece_move(
                                 update_hash_piece_move(h1, piece_idx, from_sq, to_sq),
                                 rook_idx, rook_from, rook_to)]
            ELSE IF flags = FLAG_CASTLING_QUEENSIDE
            THEN LET rook_from == IF color = 0 THEN A1 ELSE A8
                     rook_to   == IF color = 0 THEN D1 ELSE D8
                 IN  [bb |-> MovePiece(MovePiece(bb1, piece_idx, from_sq, to_sq),
                                       rook_idx, rook_from, rook_to),
                      h  |-> update_hash_piece_move(
                                 update_hash_piece_move(h1, piece_idx, from_sq, to_sq),
                                 rook_idx, rook_from, rook_to)]
            ELSE IF flags = FLAG_EN_PASSANT
            THEN LET ep_capture_sq == IF color = 0 THEN ep_square + 8 ELSE ep_square - 8
                     ep_pawn_idx   == IF color = 0 THEN BP ELSE WP
                     bbm           == MovePiece(bb1, piece_idx, from_sq, to_sq)
                 IN  [bb |-> [bbm EXCEPT ![ep_pawn_idx] = clear_bit(@, ep_capture_sq)],
                      h  |-> update_hash_piece_remove(
                                 update_hash_piece_move(h1, piece_idx, from_sq, to_sq),
                                 ep_pawn_idx, ep_capture_sq)]
            ELSE IF FLAG_PROMOTION_QUEEN <= flags /\ flags <= FLAG_PROMOTION_KNIGHT
            THEN LET promo_piece == promo_types(flags)
                     promo_idx   == IF color = 0 THEN promo_piece ELSE promo_piece + 6
                     bbm         == [bb1 EXCEPT ![piece_idx] = clear_bit(@, from_sq)]
                 IN  [bb |-> [bbm EXCEPT ![promo_idx] = set_bit(@, to_sq)],
                      h  |-> update_hash_piece_add(
                                 update_hash_piece_remove(h1, piece_idx, from_sq),
                                 promo_idx, to_sq)]
            ELSE [bb |-> MovePiece(bb1, piece_idx, from_sq, to_sq),
                  h  |-> update_hash_piece_move(h1, piece_idx, from_sq, to_sq)]
        new_castling == UpdateCastlingRights(castling, piece_type, color, from_sq, to_sq, cap_type)
        new_ep       == NewEpSquare(piece_type, from_sq, to_sq)
        new_halfmove == NewHalfmove(halfmove, piece_type, cap_type)
        new_side     == 1 - side
        old_castling == unpack_castling(undo_info.meta)
        old_ep       == unpack_ep_square(undo_info.meta)
        hash_val     == update_hash_side(
                            update_hash_ep(
                                update_hash_castling(bbh.h, old_castling, new_castling),
                                old_ep, new_ep))
    IN  [state |-> [bb   |-> bbh.bb,
                    occ  |-> UnionBB(bbh.bb),
                    meta |-> pack_metadata(new_castling, new_ep, new_halfmove, new_side),
                    hash |-> hash_val],
         undo  |-> undo_info]

\* a plausible slip: the captured piece is put back on the bitboard of its
\* type without regard to its colour
RestoreCapturedIgnoringColor(bb, cap_type, cap_color, to_sq) ==
    IF cap_type >= 0 THEN [bb EXCEPT ![cap_type] = set_bit(@, to_sq)] ELSE bb

\* "Restore captured piece" (board.py 639-644)
RestoreCaptured(bb, cap_type, cap_color, to_sq) ==
    LET cap_idx == IF cap_color = 0 THEN cap_type ELSE cap_type + 6
    IN  IF cap_type >= 0 THEN [bb EXCEPT ![cap_idx] = set_bit(@, to_sq)] ELSE bb

\* unmake_move_numba (board.py 570-652)
unmake_move_numba(state, move, undo_info) ==
    LET from_sq      == decode_move(move).from_sq
        to_sq        == decode_move(move).to_sq
        flags        == decode_move(move).flags
        current_side == unpack_side(state.meta)
        moving_side  == 1 - current_side
        piece_type   == IF flags = FLAG_CASTLING_KINGSIDE \/ flags = FLAG_CASTLING_QUEENSIDE
                        THEN 5
                        ELSE IF flags >= FLAG_PROMOTION_QUEEN
                        THEN 0
                        ELSE get_piece_at(state, to_sq).type
        piece_idx    == IF moving_side = 0 THEN piece_type ELSE piece_type + 6
        rook_idx     == IF moving_side = 0 THEN WR ELSE BR
        bb1          ==
            IF flags = FLAG_CASTLING_KINGSIDE
            THEN LET rook_from == IF moving_side = 0 THEN H1 ELSE H8
                     rook_to   == IF moving_side = 0 THEN F1 ELSE F8
                 IN  MovePiece(MovePiece(state.bb, piece_idx, to_sq, from_sq),
                               rook_idx, rook_to, rook_from)
            ELSE IF flags = FLAG_CASTLING_QUEENSIDE
            THEN LET rook_from == IF moving_side = 0 THEN A1 ELSE A8
                     rook_to   == IF moving_side = 0 THEN D1 ELSE D8
                 IN  MovePiece(MovePiece(state.bb, piece_idx, to_sq, from_sq),
                               rook_idx, rook_to, rook_from)
            ELSE IF flags = FLAG_EN_PASSANT
            THEN LET ep_capture_sq == IF moving_side = 0 THEN to_sq + 8 ELSE to_sq - 8
                     ep_pawn_idx   == IF moving_side = 0 THEN BP ELSE WP
                     bbm           == MovePiece(state.bb, piece_idx, to_sq, from_sq)
                 IN  [bbm EXCEPT ![ep_pawn_idx] = set_bit(@, ep_capture_sq)]
            ELSE IF FLAG_PROMOTION_QUEEN <= flags /\ flags <= FLAG_PROMOTION_KNIGHT
            THEN LET promo_piece == promo_types(flags)
                     promo_idx   == IF moving_side = 0 THEN promo_piece ELSE promo_piece + 6
                     pawn_idx    == IF moving_side = 0 THEN WP ELSE BP
                     bbm         == [state.bb EXCEPT ![promo_idx] = clear_bit(@, to_sq)]
                 IN  [bbm EXCEPT ![pawn_idx] = set_bit(@, from_sq)]
            ELSE MovePiece(state.bb, piece_idx, to_sq, from_sq)
        bb2          == RestoreCaptured(bb1, undo_info.cap_type, undo_info.cap_color, to_sq)
    IN  [bb |-> bb2, occ |-> UnionBB(bb2), meta |-> undo_info.meta, hash |-> undo_info.hash]

\* ------------------------------------------------------------------------
\* Move generation (backend/engine/moves.py).  Every generator returns the
\* sequence of moves in the order the code appends them.
\* ------------------------------------------------------------------------
OwnPieces(state, color) ==
    UNION { state.bb[(IF color = 0 THEN WP ELSE BP) + i] : i \in 0..5 }

Promotions(from_sq, to_sq) ==
    << encode_move(from_sq, to_sq, FLAG_PROMOTION_QUEEN),
       encode_move(from_sq, to_sq, FLAG_PROMOTION_ROOK),
       encode_move(from_sq, to_sq, FLAG_PROMOTION_BISHOP),
       encode_move(from_sq, to_sq, FLAG_PROMOTION_KNIGHT) >>

\* the moves of the pawn on from_sq (moves.py 70-117)
PawnMovesFrom(state, color, from_sq) ==
    LET occupied   == state.occ
        opponent   == OwnPieces(state, 1 - color)
        push_dir   == IF color = 0 THEN -8 ELSE 8
        start_rank == IF color = 0 THEN 6 ELSE 1
        promo_rank == IF color = 0 THEN 0 ELSE 7
        ep_square  == unpack_ep_square(state.meta)
        row        == RowOf(from_sq)
        col        == ColOf(from_sq)
        to_sq      == from_sq + push_dir
        to_row     == row + (IF color = 1 THEN 1 ELSE -1)
        to_sq2     == from_sq + 2 * push_dir
        pushes     ==
            IF ~ get_bit(occupied, to_sq)
            THEN IF to_row = promo_rank
                 THEN Promotions(from_sq, to_sq)
                 ELSE << encode_move(from_sq, to_sq, FLAG_NORMAL) >>
                      \o ( IF row = start_rank /\ ~ get_bit(occupied, to_sq2)
                           THEN << encode_move(from_sq, to_sq2, FLAG_NORMAL) >>
                           ELSE << >> )
            ELSE << >>
        Captures(cap_offset) ==
            LET cap_col == col + cap_offset
                cap_sq  == coords_to_square(to_row, cap_col)
            IN  IF 0 <= cap_col /\ cap_col < 8
                THEN ( IF get_bit(opponent, cap_sq)
                       THEN IF to_row = promo_rank
                            THEN Promotions(from_sq, cap_sq)
                            ELSE << encode_move(from_sq, cap_sq, FLAG_NORMAL) >>
                       ELSE << >> )
                     \o ( IF ep_square >= 0 /\ cap_sq = ep_square
                          THEN << encode_move(from_sq, cap_sq, FLAG_EN_PASSANT) >>
                          ELSE << >> )
                ELSE << >>
    IN  pushes \o Captures(-1) \o Captures(1)

generate_pawn_moves(state, color) ==
    LET pawns == SortedSeq(state.bb[IF color = 0 THEN WP ELSE BP])
    IN  Concat([i \in 1..Len(pawns) |-> PawnMovesFrom(state, color, pawns[i])])

\* normal moves from from_sq to every square of the bitboard attacks, lsb first
MovesTo(from_sq, attacks) ==
    LET tos == SortedSeq(attacks)
    IN  [i \in 1..Len(tos) |-> encode_move(from_sq, tos[i], FLAG_NORMAL)]

generate_knight_moves(state, color) ==
    LET knights == SortedSeq(state.bb[IF color = 0 THEN WN ELSE BN])
        own     == OwnPieces(state, color)
    IN  Concat([i \in 1..Len(knights) |->
                  MovesTo(knights[i], KNIGHT_ATTACKS[knights[i]] \ own)])

generate_sliding_moves(state, color, piece_type) ==
    LET piece_idx == (IF color = 0 THEN WB ELSE BB) + piece_type - 2
        pieces    == SortedSeq(state.bb[piece_idx])
        own       == OwnPieces(state, color)
        Attacks(from_sq) ==
            IF piece_type = 2 THEN bishop_attacks(from_sq, state.occ)
            ELSE IF piece_type = 3 THEN rook_attacks(from_sq, state.occ)
            ELSE queen_attacks(from_sq, state.occ)
    IN  Concat([i \in 1..Len(pieces) |-> MovesTo(pieces[i], Attacks(pieces[i]) \ own)])

\* generate_king_moves (moves.py 187-237): the castling moves are emitted
\* from E1/E8 whenever the right is set and the squares between are empty
generate_king_moves(state, color) ==
    LET king_bb  == state.bb[IF color = 0 THEN WK ELSE BK]
        from_sq  == lsb(king_bb)
        own      == OwnPieces(state, color)
        castling == unpack_castling(state.meta)
        occupied == state.occ
        Has(right) == BitOf(castling, right) = 1
    IN  IF king_bb = {} THEN << >>
        ELSE MovesTo(from_sq, KING_ATTACKS[from_sq] \ own)
             \o ( IF color = 0
                  THEN ( IF Has(0) /\ ~ get_bit(occupied, F1) /\ ~ get_bit(occupied, G1)
                         THEN << encode_move(E1, G1, FLAG_CASTLING_KINGSIDE) >>
                         ELSE << >> )
                       \o ( IF /\ Has(1)
                               /\ ~ get_bit(occupied, D1)
                               /\ ~ get_bit(occupied, C1)
                               /\ ~ get_bit(occupied, B1)
                            THEN << encode_move(E1, C1, FLAG_CASTLING_QUEENSIDE) >>
                            ELSE << >> )
                  ELSE ( IF Has(2) /\ ~ get_bit(occupied, F8) /\ ~ get_bit(occupied, G8)
                         THEN << encode_move(E8, G8, FLAG_CASTLING_KINGSIDE) >>
                         ELSE << >> )
                       \o ( IF /\ Has(3)
                               /\ ~ get_bit(occupied, D8)
                               /\ ~ get_bit(occupied, C8)
                               /\ ~ get_bit(occupied, B8)
                            THEN << encode_move(E8, C8, FLAG_CASTLING_QUEENSIDE) >>
                            ELSE << >> ) )

\* is_square_attacked (moves.py 240-278); square is a board square
is_square_attacked(state, square, by_color) ==
    LET base == IF by_color = 0 THEN WP ELSE BP
    IN  \/ state.bb[base + 0] \cap PAWN_ATTACKS[1 - by_color][square] # {}
        \/ state.bb[base + 1] \cap KNIGHT_ATTACKS[square] # {}
        \/ state.bb[base + 5] \cap KING_ATTACKS[square] # {}
        \/ (state.bb[base + 2] \cup state.bb[base + 4]) \cap bishop_attacks(square, state.occ) # {}
        \/ (state.bb[base + 3] \cup state.bb[base + 4]) \cap rook_attacks(square, state.occ) # {}

find_king_square(state, color) == lsb(state.bb[IF color = 0 THEN WK ELSE BK])

generate_pseudo_legal_moves(state, color) ==
       generate_pawn_moves(state, color)
    \o generate_knight_moves(state, color)
    \o generate_sliding_moves(state, color, 2)
    \o generate_sliding_moves(state, color, 3)
    \o generate_sliding_moves(state, color, 4)
    \o generate_king_moves(state, color)

\* the king of color is not attacked in the position copy (moves.py 330-341)
KingNotAttacked(copy, color) ==
    ~ is_square_attacked(copy, find_king_square(copy, color), 1 - color)

\* is_legal_move (moves.py 311-341)
is_legal_move(state, move, color) ==
    LET from_sq  == decode_move(move).from_sq
        flags    == decode_move(move).flags
        opponent == 1 - color
        castle   == flags = FLAG_CASTLING_KINGSIDE \/ flags = FLAG_CASTLING_QUEENSIDE
        through  == from_sq + (IF flags = FLAG_CASTLING_KINGSIDE THEN 1 ELSE -1)
    IN  /\ castle => /\ ~ is_square_attacked(state, from_sq, opponent)
                     /\ ~ is_square_attacked(state, through, opponent)
        /\ KingNotAttacked(make_move_numba(state, move).state, color)

generate_legal_moves_numba(state, color) ==
    LET Legal(move) == is_legal_move(state, move, color)
    IN  SelectSeq(generate_pseudo_legal_moves(state, color), Legal)

\* Moves.generate and Moves.is_check (moves.py 376-394)
Moves_generate(board) == generate_legal_moves_numba(board.state, unpack_side(board.state.meta))

Moves_is_check(board) ==
    LET color   == unpack_side(board.state.meta)
        king_sq == find_king_square(board.state, color)
    IN  IF king_sq < 0 THEN FALSE
        ELSE is_square_attacked(board.state, king_sq, 1 - color)

\* ------------------------------------------------------------------------
\* Board wrapper (board.py 906-974): a board is [state, fullmove]
\* ------------------------------------------------------------------------
\* the wrapper's bookkeeping once make_move_numba has returned r
\* (board.py 930-933)
BoardAfterMove(board, r) ==
    [board |-> [state    |-> r.state,
                fullmove |-> IF unpack_side(r.state.meta) = 0
                             THEN board.fullmove + 1 ELSE board.fullmove],
     undo  |-> r.undo]

Board_make_move(board, move) == BoardAfterMove(board, make_move_numba(board.state, move))

Board_unmake_move(board, move, undo_info) ==
    [state    |-> unmake_move_numba(board.state, move, undo_info),
     fullmove |-> IF unpack_side(board.state.meta) = 0
                  THEN board.fullmove - 1 ELSE board.fullmove]

\* Board.make_null_move (board.py 941-969): the board after the null move
\* and the undo record [old_meta, old_hash].
\*   new_meta = old_meta ^ 1;  new_meta &= ~(0xFF << 2)
\*   new_hash = old_hash ^ ZOBRIST_SIDE
\*   ep_file  = (old_meta >> 2) & 0xFF;  if ep_file < 8: new_hash ^= ZOBRIST_EP[ep_file]
Board_make_null_move(board) ==
    LET old_meta == board.state.meta
        old_hash == board.state.hash
        toggled  == IF old_meta % 2 = 0 THEN old_meta + 1 ELSE old_meta - 1
        new_meta == toggled - ((toggled \div 4) % 256) * 4
        h1       == Xor(old_hash, ZOBRIST_SIDE)
        ep_file  == (old_meta \div 4) % 256
        new_hash == IF ep_file < 8 THEN Xor(h1, ZOBRIST_EP(ep_file)) ELSE h1
    IN  [board |-> [board EXCEPT !.state.meta = new_meta, !.state.hash = new_hash],
         undo  |-> [meta |-> old_meta, hash |-> old_hash]]

\* Board.unmake_null_move (board.py 971-974)
Board_unmake_null_move(board, undo_info) ==
    [board EXCEPT !.state.meta = undo_info.meta, !.state.hash = undo_info.hash]

\* ------------------------------------------------------------------------
\* Transposition table (transposition.py).  The arrays hash_keys, scores,
\* best_moves, depths, node_types and ages start zero-filled; the model keeps
\* the slots that have been written and reads every other slot as zeros.
\* The counters hits, collisions and stores are statistics that no method
\* reads back; they are left out.
\*
\* A 64-bit hash is the set of generators XORed into it: the Zobrist keys
\* 0..792 and, for hashes handed to the table directly, single bits
\* (BitKey(b) stands for the value 2^b).  The empty set is the hash 0.
\* ------------------------------------------------------------------------
EXACT == 0

LOWER_BOUND == 1

UPPER_BOUND == 2

\* the low 22 bits (a table of 64 MB has 2^22 slots) of the 793 keys that _init_zobrist_keys draws from
\* RandomState(seed=0) (board.py 789-815), in the order pieces, castling,
\* ep, side
ZOBRIST_LOW == <<
    4131500, 1484405, 963395, 4028099, 3449865, 1659157, 374564, 736326, 3316312, 2701626, 3046886, 2467927,
    2842200, 3401381, 3107661, 924425, 2951283, 2527987, 3491838, 3743151, 441170, 1419224, 2327283, 1098387,
    473998, 1170720, 3329289, 1430143, 1563167, 2574580, 3795619, 3419595, 410807, 320290, 1009792, 1924149,
    3296806, 3105524, 1669455, 771689, 570810, 2184056, 1570113, 2813865, 3225891, 3075191, 1810862, 86107,
    4188558, 1844789, 3697273, 536660, 397636, 2071492, 3732095, 758915, 3283812, 1554408, 2106511, 1223907,
    3291927, 101261, 341845, 2094385, 1259689, 2409920, 2923717, 1810688, 233138, 1697698, 3751773, 3769954,
    852941, 1517543, 24777, 538112, 2492786, 340922, 1038359, 2420866, 2578530, 861091, 2881659, 383570,
    838371, 3182801, 3380635, 818217, 3226305, 2513674, 900139, 1796107, 4030771, 2177056, 1475712, 2466067,
    2471466, 2475192, 3500520, 3389726, 352893, 2047491, 3517666, 1178893, 3033384, 4131859, 1052488, 4135362,
    1826996, 2579436, 3591950, 3030276, 1118957, 2413564, 1379789, 91757, 1047224, 937112, 3762325, 639001,
    2769852, 1493878, 124349, 1870497, 115616, 3970555, 2742393, 3408341, 74253, 165560, 3555919, 248082,
    3042742, 1850123, 2701423, 225273, 457439, 3681068, 3161469, 3240003, 267247, 1607914, 1365990, 1382102,
    2276029, 3279575, 2652192, 2307688, 1606794, 3436523, 147069, 4031087, 1647362, 1396691, 3320471, 1511731,
    2913428, 3184157, 4008483, 3468681, 700713, 1793923, 1614554, 736108, 3917599, 1437066, 4174253, 2590119,
    2140501, 3140652, 2271138, 2693153, 3340520, 4053028, 3130827, 1253573, 2684853, 1490000, 1343624, 2529409,
    2712944, 1652088, 344232, 2525988, 2663961, 2940775, 2046755, 284446, 2705137, 1810578, 3264733, 3691005,
    2775109, 156556, 1258357, 963906, 3659867, 1933735, 1769419, 3534238, 1170118, 233746, 3430443, 3834289,
    1136733, 3622293, 2928473, 2456032, 1917257, 802795, 449129, 429952, 4161087, 2693226, 615006, 2431604,
    2925763, 2797704, 1831771, 4167547, 324695, 2492563, 448967, 838669, 382545, 2762612, 4143936, 2851548,
    450841, 1662378, 152022, 1809684, 2673988, 1168611, 1884755, 3682248, 629389, 2941184, 1223887, 3637173,
    2466820, 1479004, 3339546, 997172, 269745, 2370355, 4158313, 2846069, 1359411, 3228085, 618411, 9724,
    2906898, 2648919, 1715526, 1780789, 1866846, 2111824, 95868, 667194, 2552938, 2940204, 3455865, 3514918,
    4171400, 4179960, 2062032, 2030102, 2056015, 1185544, 4005638, 2270663, 1152473, 2717244, 1100856, 429805,
    4071704, 1608292, 2427185, 1136158, 221337, 1334625, 2960057, 2325915, 2378657, 2920245, 1649587, 3570166,
    1378921, 3438729, 1806208, 779640, 3559121, 1695605, 2477315, 2938666, 808468, 3708228, 1130608, 3752586,
    1312104, 2619227, 589887, 200596, 62729, 3387995, 2799011, 2975564, 36209, 2943202, 313259, 1985420,
    1806138, 3160433, 742183, 1073850, 2652515, 3127430, 857314, 2069160, 3421601, 2677572, 2949856, 3510637,
    1715401, 368837, 2852487, 1344094, 1356022, 189575, 2091221, 1973868, 890982, 3041607, 1610975, 274053,
    2720875, 3291081, 2944519, 1550309, 3159432, 3286574, 3743080, 2864678, 4156490, 3369698, 1204567, 727891,
    1694414, 1928307, 268129, 885563, 3070642, 1079017, 191929, 3128667, 1083811, 3998100, 419001, 1507703,
    2609001, 2850308, 3595762, 3679646, 882519, 2560419, 2297050, 2524698, 3109910, 2456271, 1732186, 2456550,
    3948240, 1369532, 3274746, 1643136, 2117579, 782663, 562694, 703733, 1291791, 825510, 3017643, 2387335,
    1952577, 2751298, 404316, 1008357, 4160758, 4180383, 914610, 876718, 3743346, 1741580, 435945, 4187202,
    3765235, 1123466, 3021530, 2843320, 3731777, 2493125, 23842, 4147203, 1494254, 261291, 2272088, 1384084,
    888604, 3642246, 4112988, 364134, 2968955, 4142189, 1966180, 1123149, 841211, 1363537, 1073389, 1358074,
    2677502, 475157, 3654885, 3629456, 386030, 304805, 652673, 3655366, 134490, 1342459, 891982, 1697352,
    4063021, 3522095, 3036330, 1120394, 1337, 3945817, 2233469, 3411794, 833210, 2284561, 696767, 467608,
    880965, 3707044, 2204849, 600728, 952210, 2798030, 2825351, 3437291, 1703408, 1878655, 3252561, 93708,
    1353518, 3174688, 1032307, 3697276, 4091054, 647019, 1171433, 3184192, 2158454, 4100242, 313095, 3253296,
    1382693, 1877485, 1874029, 862387, 896071, 437681, 3249437, 3285066, 1530346, 825207, 1117392, 2790898,
    2393498, 3443892, 47042, 2122505, 1846644, 2586345, 4175228, 3670628, 91204, 42506, 1758824, 1862053,
    1188768, 2075937, 1376355, 723250, 1572050, 1487582, 1574472, 30105, 3481127, 4142715, 2389656, 2555587,
    2146003, 1420086, 59530, 3602310, 3061603, 3534790, 582818, 3520754, 3606548, 3551862, 1349092, 2437225,
    3530977, 3770127, 1980961, 1410956, 3046438, 2031882, 4030333, 1614438, 307531, 2614613, 1132914, 1015603,
    2694476, 2872841, 3761096, 3496564, 690411, 3211051, 3288126, 2013743, 4159125, 4011794, 352781, 2657884,
    3221609, 3059206, 3362352, 3646362, 3677573, 1160127, 830501, 867953, 178528, 4110544, 3440702, 2419084,
    2703168, 1808730, 2564246, 280965, 946771, 624100, 1064284, 1039514, 2843731, 2787302, 478388, 2972061,
    3296983, 2031434, 1568387, 1952067, 3417968, 2203220, 3597029, 3769144, 4053944, 1987729, 4169657, 963052,
    1337423, 2415822, 452484, 2787556, 318782, 4128603, 3481607, 1352470, 747678, 1410640, 2375215, 1606258,
    2283479, 2174951, 2689114, 2583094, 3037859, 2661229, 3158640, 3830852, 3697677, 3961619, 1355016, 149201,
    3565948, 3605889, 2839709, 3039184, 3453432, 461462, 3422463, 567044, 3611498, 3178619, 1998038, 2419429,
    3294813, 2692648, 533713, 2655528, 887274, 4180509, 3317342, 1093285, 1419480, 3021667, 3710621, 2378817,
    2747592, 623703, 3822959, 27034, 2307417, 964824, 584143, 2966825, 2752464, 2198571, 2674117, 3148691,
    571158, 2400139, 3554209, 1206391, 2122288, 1224943, 119392, 1664850, 1942933, 1493506, 1563914, 2198822,
    3154532, 2483829, 3034788, 116997, 1486499, 343985, 884052, 3941641, 3841156, 2575384, 118146, 2019203,
    3671307, 2918884, 550042, 3196591, 2029077, 1709738, 2083257, 4158053, 3763444, 2212023, 3108036, 513250,
    1159138, 3033326, 606064, 433121, 3249249, 3393837, 539225, 3172845, 430131, 3137431, 2806531, 3977646,
    1758621, 3605125, 397255, 88910, 678068, 3260278, 4106931, 3736313, 3166109, 3965553, 3205571, 3616634,
    589400, 2440444, 2455364, 14707, 726201, 891494, 1949390, 1503193, 2977795, 1738119, 1680462, 3091401,
    752400, 3467899, 46783, 481409, 77493, 1524160, 208600, 1620872, 1576331, 3823989, 3468113, 986127,
    193642, 1949909, 2715450, 788046, 4154177, 1901835, 1525095, 189274, 2119074, 1231870, 371969, 1772065,
    2809004, 697128, 3664077, 426579, 4179360, 4047172, 828054, 2858725, 3899471, 121615, 3997177, 3631789,
    2414068, 1352528, 260117, 3737283, 2446656, 3434290, 2572651, 2888146, 664249, 1089295, 2600476, 1914139,
    3543353, 1747160, 2640141, 3653710, 1627924, 2127543, 1079531, 707675, 3415823, 2967127, 2917965, 3284381,
    1405038, 3710596, 3798721, 3216305, 2735673, 138281, 3786480, 564143, 4062228, 3409216, 3555564, 2082895,
    1721506, 629414, 349845, 2793845, 3656106, 572716, 2094889, 703335, 3585787, 841087, 3585348, 1989379,
    3135070 >>

BitKey(b) == 1000 + b

KeyLow(k) ==
    IF k < 793 THEN ZOBRIST_LOW[k + 1]
    ELSE IF k - 1000 < 22 THEN 2 ^ (k - 1000) ELSE 0

\* bit b of the XOR of the keys of zobrist: the keys that have the bit set,
\* counted modulo 2
HashBit(zobrist, b) == Cardinality({ k \in zobrist : BitOf(KeyLow(k), b) = 1 }) % 2

\* bits lo..hi of the XOR of the keys of zobrist, in place
RECURSIVE HashBits(_, _, _)
HashBits(zobrist, lo, hi) ==
    IF lo = hi THEN HashBit(zobrist, lo) * 2 ^ lo
    ELSE LET mid == (lo + hi) \div 2
         IN  HashBits(zobrist, lo, mid) + HashBits(zobrist, mid + 1, hi)

\* the low 22 bits of the value of zobrist
HashLow(zobrist) == HashBits(zobrist, 0, 21)

\* v.bit_length()
RECURSIVE bit_length(_)
bit_length(v) == IF v = 0 THEN 0 ELSE 1 + bit_length(Abs(v) \div 2)

\* np.int16(score), np.int8(depth), np.uint8(x): two's complement wrap
WrapSigned(v, bits) ==
    LET m == (v + 2 ^ (bits - 1)) % (2 ^ bits) IN m - 2 ^ (bits - 1)

WrapUnsigned(v, bits) == v % (2 ^ bits)

ZeroSlot == [hash_key |-> {}, score |-> 0, best_move |-> 0, depth |-> 0,
             node_type |-> 0, age |-> 0]

\* TranspositionTable.__init__ (transposition.py 46-75), for a size whose
\* slot count is at least 1
TranspositionTable(size_mb) ==
    LET bytes_per_entry == 16
        size0 == (size_mb * 1024 * 1024) \div bytes_per_entry
        size  == 2 ^ (bit_length(size0) - 1)
    IN  [size |-> size, mask |-> size - 1, slots |-> << >>, current_age |-> 0]

\* index = int(zobrist & self.mask)
TTIndex(table, zobrist) == HashLow(zobrist) % (table.mask + 1)

TTSlot(table, index) ==
    IF index \in DOMAIN table.slots THEN table.slots[index] ELSE ZeroSlot

\* TranspositionTable.clear (transposition.py 77-87)
TT_clear(table) == [table EXCEPT !.slots = << >>]

\* TranspositionTable.new_search (transposition.py 89-91)
TT_new_search(table) == [table EXCEPT !.current_age = (table.current_age + 1) % 256]

NoResult == [found |-> FALSE, has_score |-> FALSE, score |-> 0, best_move |-> 0]

\* TranspositionTable.probe (transposition.py 93-131).  The result None is
\* NoResult; (score, best_move) has has_score; (None, best_move) has not.
TT_probe(table, zobrist, depth, alpha, beta) ==
    LET slot == TTSlot(table, TTIndex(table, zobrist))
    IN  IF slot.hash_key = zobrist
        THEN IF slot.depth >= depth
             THEN IF \/ slot.node_type = EXACT
                     \/ slot.node_type = LOWER_BOUND /\ slot.score >= beta
                     \/ slot.node_type = UPPER_BOUND /\ slot.score <= alpha
                  THEN [found |-> TRUE, has_score |-> TRUE,
                        score |-> slot.score, best_move |-> slot.best_move]
                  ELSE IF slot.best_move # 0
                       THEN [found |-> TRUE, has_score |-> FALSE,
                             score |-> 0, best_move |-> slot.best_move]
                       ELSE NoResult
             ELSE NoResult
        ELSE NoResult

\* a plausible slip: an entry of equal depth is kept
TT_replace_deeper_only(table, slot, zobrist, depth) ==
    IF slot.hash_key = {} \/ slot.hash_key = zobrist
    THEN TRUE
    ELSE depth > slot.depth \/ slot.age # table.current_age

\* the replacement test of store (transposition.py 153-163)
TT_replace(table, slot, zobrist, depth) ==
    IF slot.hash_key = {} \/ slot.hash_key = zobrist
    THEN TRUE
    ELSE depth >= slot.depth \/ slot.age # table.current_age

\* TranspositionTable.store (transposition.py 133-172)
TT_store(table, zobrist, score, best_move, depth, node_type) ==
    LET index == TTIndex(table, zobrist)
        slot  == TTSlot(table, index)
        entry == [hash_key  |-> zobrist,
                  score     |-> WrapSigned(score, 16),
                  best_move |-> best_move,
                  depth     |-> WrapSigned(depth, 8),
                  node_type |-> WrapUnsigned(node_type, 8),
                  age       |-> WrapUnsigned(table.current_age, 8)]
    IN  IF TT_replace(table, slot, zobrist, depth)
        THEN [table EXCEPT !.slots =
                 [i \in DOMAIN table.slots \cup {index} |->
                     IF i = index THEN entry ELSE table.slots[i]]]
        ELSE table

\* ------------------------------------------------------------------------
\* Search (backend/engine/search.py)
\* ------------------------------------------------------------------------
MATE_SCORE == 30000

DRAW_SCORE == 0

\* Search.PIECE_VALUES, used for MVV-LVA ordering
PIECE_VALUES == << 100, 320, 330, 500, 900, 20000 >>

NULL_MOVE_REDUCTION == 2

NULL_MOVE_MIN_DEPTH == 3

LMR_MIN_DEPTH == 3

LMR_FULL_DEPTH_MOVES == 4

LMR_REDUCTION == 1

ASPIRATION_WINDOW == 50

ASPIRATION_MIN_DEPTH == 3

FUTILITY_MARGIN == [d \in {1, 2} |-> IF d = 1 THEN 200 ELSE 400]

REVERSE_FUTILITY_MARGIN == [d \in {1, 2, 3} |-> IF d = 1 THEN 200 ELSE IF d = 2 THEN 300 ELSE 500]

BIG_DELTA == 900

\* Search.__init__: max_depth = 64
max_depth == 64

\* "no move": the None of best_move and of tt_move
None == -1

\* f[lo] + ... + f[hi]
RECURSIVE SumRange(_, _, _)
SumRange(f, lo, hi) ==
    IF lo > hi THEN 0
    ELSE IF lo = hi THEN f[lo]
    ELSE LET mid == (lo + hi) \div 2
         IN  SumRange(f, lo, mid) + SumRange(f, mid + 1, hi)

\* Middlegame piece-square tables from White's side, a8 first
\* (pst_tables.py 37-118)
PST_MG == <<
    << 0, 0, 0, 0, 0, 0, 0, 0,  50, 50, 50, 50, 50, 50, 50, 50,
       10, 10, 20, 30, 30, 20, 10, 10,  5, 5, 10, 25, 25, 10, 5, 5,
       0, 0, 0, 20, 20, 0, 0, 0,  5, -5, -10, 0, 0, -10, -5, 5,
       5, 10, 10, -20, -20, 10, 10, 5,  0, 0, 0, 0, 0, 0, 0, 0 >>,
    << -50, -40, -30, -30, -30, -30, -40, -50,  -40, -20, 0, 0, 0, 0, -20, -40,
       -30, 0, 10, 15, 15, 10, 0, -30,  -30, 5, 15, 20, 20, 15, 5, -30,
       -30, 0, 15, 20, 20, 15, 0, -30,  -30, 5, 10, 15, 15, 10, 5, -30,
       -40, -20, 0, 5, 5, 0, -20, -40,  -50, -40, -30, -30, -30, -30, -40, -50 >>,
    << -20, -10, -10, -10, -10, -10, -10, -20,  -10, 0, 0, 0, 0, 0, 0, -10,
       -10, 0, 5, 10, 10, 5, 0, -10,  -10, 5, 5, 10, 10, 5, 5, -10,
       -10, 0, 10, 10, 10, 10, 0, -10,  -10, 10, 10, 10, 10, 10, 10, -10,
       -10, 5, 0, 0, 0, 0, 5, -10,  -20, -10, -10, -10, -10, -10, -10, -20 >>,
    << 0, 0, 0, 0, 0, 0, 0, 0,  5, 10, 10, 10, 10, 10, 10, 5,
       -5, 0, 0, 0, 0, 0, 0, -5,  -5, 0, 0, 0, 0, 0, 0, -5,
       -5, 0, 0, 0, 0, 0, 0, -5,  -5, 0, 0, 0, 0, 0, 0, -5,
       -5, 0, 0, 0, 0, 0, 0, -5,  0, 0, 0, 5, 5, 0, 0, 0 >>,
    << -20, -10, -10, -5, -5, -10, -10, -20,  -10, 0, 0, 0, 0, 0, 0, -10,
       -10, 0, 5, 5, 5, 5, 0, -10,  -5, 0, 5, 5, 5, 5, 0, -5,
       0, 0, 5, 5, 5, 5, 0, -5,  -10, 5, 5, 5, 5, 5, 0, -10,
       -10, 0, 5, 0, 0, 0, 0, -10,  -20, -10, -10, -5, -5, -10, -10, -20 >>,
    << -30, -40, -40, -50, -50, -40, -40, -30,  -30, -40, -40, -50, -50, -40, -40, -30,
       -30, -40, -40, -50, -50, -40, -40, -30,  -30, -40, -40, -50, -50, -40, -40, -30,
       -20, -30, -30, -40, -40, -30, -30, -20,  -10, -20, -20, -20, -20, -20, -20, -10,
       20, 20, 0, 0, 0, 0, 20, 20,  20, 30, 10, 0, 0, 10, 30, 20 >> >>

\* The evaluator.  search.py imports evaluate from engine.evaluation, which
\* the source tree does not contain; it is written here from the
\* specification (section 4.4): material plus piece-square value per piece,
\* Black's squares mirrored vertically, the king on the endgame table (half
\* the middlegame value) when the non-king material of both sides is below
\* the threshold, White minus Black, negated when Black is to move.
EvalPieceValue == << 100, 320, 330, 500, 900, 20000 >>

EndgameThreshold == 2500

evaluate(state) ==
    LET material == SumRange([i \in PieceIdx |->
                                IF i % 6 = 5 THEN 0
                                ELSE Cardinality(state.bb[i]) * EvalPieceValue[(i % 6) + 1]],
                             0, 11)
        endgame  == material < EndgameThreshold
        flip(sq) == (7 - (sq \div 8)) * 8 + (sq % 8)
        pst(pt, c, sq) ==
            LET t == PST_MG[pt + 1][(IF c = 0 THEN sq ELSE flip(sq)) + 1]
            IN  IF pt = 5 /\ endgame THEN t \div 2 ELSE t
        \* what the pieces of colour c standing on sq contribute
        on(c, sq) == SumRange([i \in 0..5 |->
                                 IF sq \in state.bb[i + 6 * c]
                                 THEN EvalPieceValue[i + 1] + pst(i, c, sq) ELSE 0],
                              0, 5)
        total(c) == SumRange([sq \in Squares |-> on(c, sq)], 0, 63)
        raw == total(0) - total(1)
    IN  IF unpack_side(state.meta) = 0 THEN raw ELSE -raw

\* Search._evaluate (search.py 438-443)
Search_evaluate(board) == evaluate(board.state)

\* np.argsort(keys): the permutation numpy's argsort (quicksort kind)
\* produces.  Ranges of up to 17 elements are sorted by insertion, which
\* keeps equal keys in list order; longer ranges are first partitioned around
\* the median of three.  (The heapsort fallback for deep recursion cannot be
\* reached by a move list.)
Swap(t, i, j) == [t EXCEPT ![i] = t[j], ![j] = t[i]]

\* the inner loop of the insertion sort: the index vi, taken from position
\* pi, moves down past every neighbour whose key is greater
InsertBack(v, t, pl, pi) ==
    LET vi == t[pi]
        pj == CHOOSE j \in pl..pi :
                 /\ \A k \in j..(pi - 1) : v[vi] < v[t[k]]
                 /\ j = pl \/ ~ (v[vi] < v[t[j - 1]])
    IN  [k \in DOMAIN t |->
            IF k < pj \/ k > pi THEN t[k]
            ELSE IF k = pj THEN vi
            ELSE t[k - 1]]

\* the insertion sort of positions pl..pr, as the insertions of positions
\* lo..hi in order
RECURSIVE InsertionSort(_, _, _, _, _)
InsertionSort(v, t, pl, lo, hi) ==
    IF lo > hi THEN t
    ELSE IF lo = hi THEN InsertBack(v, t, pl, lo)
    ELSE LET mid == (lo + hi) \div 2
         IN  InsertionSort(v, InsertionSort(v, t, pl, lo, mid), pl, mid + 1, hi)

\* do { ++pi } while (v[*pi] < vp)  and  do { --pj } while (vp < v[*pj]);
\* the median-of-three step has put a key that stops each scan inside the range
ScanUp(v, t, pi, vp) ==
    CHOOSE p \in (pi + 1)..Len(t) :
        /\ ~ (v[t[p]] < vp)
        /\ \A k \in (pi + 1)..(p - 1) : v[t[k]] < vp

ScanDown(v, t, pj, vp) ==
    CHOOSE p \in 1..(pj - 1) :
        /\ ~ (vp < v[t[p]])
        /\ \A k \in (p + 1)..(pj - 1) : vp < v[t[k]]

RECURSIVE Partition(_, _, _, _, _)
Partition(v, t, pi, pj, vp) ==
    LET i2 == ScanUp(v, t, pi, vp)
        j2 == ScanDown(v, t, pj, vp)
    IN  IF i2 >= j2 THEN [t |-> t, pi |-> i2]
        ELSE Partition(v, Swap(t, i2, j2), i2, j2, vp)

RECURSIVE aquicksort(_, _, _, _)
aquicksort(v, t, pl, pr) ==
    IF pr - pl > 16
    THEN LET pm == pl + ((pr - pl) \div 2)
             t1 == IF v[t[pm]] < v[t[pl]] THEN Swap(t, pm, pl) ELSE t
             t2 == IF v[t1[pr]] < v[t1[pm]] THEN Swap(t1, pr, pm) ELSE t1
             t3 == IF v[t2[pm]] < v[t2[pl]] THEN Swap(t2, pm, pl) ELSE t2
             vp == v[t3[pm]]
             t4 == Swap(t3, pm, pr - 1)
             r  == Partition(v, t4, pl, pr - 1, vp)
             t5 == Swap(r.t, r.pi, pr - 1)
         IN  aquicksort(v, aquicksort(v, t5, pl, r.pi - 1), r.pi + 1, pr)
    ELSE InsertionSort(v, t, pl, pl + 1, pr)

\* moves[np.argsort(-scores)]
SortDescending(moves, scores) ==
    LET n    == Len(moves)
        keys == [i \in 1..n |-> -scores[i]]
        perm == aquicksort(keys, [i \in 1..n |-> i], 1, n)
    IN  [i \in 1..n |-> moves[perm[i]]]

\* The value of the first piece type (pawn..king order) of the side whose
\* bitboards start at `start` that stands on sq; `default` when none does.
PieceValueOn(board, start, sq, default) ==
    LET found == { p \in 0..5 : sq \in board.state.bb[start + p] }
    IN  IF found = {} THEN default
        ELSE PIECE_VALUES[(CHOOSE p \in found : \A q \in found : p <= q) + 1]

opponent_start(board) == IF unpack_side(board.state.meta) = 0 THEN BP ELSE WP

piece_start(board) == IF unpack_side(board.state.meta) = 0 THEN WP ELSE BP

\* Search._is_capture (search.py 560-576): the destination holds an opponent
\* piece, or the flags field equals the literal 5
Search_is_capture(move, board) ==
    LET m == decode_move(move)
    IN  \/ PieceValueOn(board, opponent_start(board), m.to_sq, 0) > 0
        \/ m.flags = 5

\* Search._get_captures (search.py 497-524)
Search_get_captures(board, moves) ==
    SelectSeq(moves, LAMBDA mv : Search_is_capture(mv, board))

\* Search._order_captures (search.py 526-558)
Search_order_captures(board, captures) ==
    IF Len(captures) <= 1 THEN captures
    ELSE LET score(mv) ==
                 LET m == decode_move(mv)
                 IN  PieceValueOn(board, opponent_start(board), m.to_sq, 100) * 10
                       - PieceValueOn(board, piece_start(board), m.from_sq, 100)
         IN  SortDescending(captures, [i \in 1..Len(captures) |-> score(captures[i])])

\* killer_moves is a dict depth -> list, history_table an array indexed
\* [side][from][to] that starts zero-filled: both are kept as functions over
\* the keys that have been written
KillersAt(killer_moves, depth) ==
    IF depth \in DOMAIN killer_moves THEN killer_moves[depth] ELSE << >>

HistoryAt(history_table, side, from_sq, to_sq) ==
    IF << side, from_sq, to_sq >> \in DOMAIN history_table
    THEN history_table[<< side, from_sq, to_sq >>] ELSE 0

\* Search._order_moves (search.py 578-636)
Search_order_moves(ctx, board, moves, depth, tt_move) ==
    IF Len(moves) <= 1 THEN moves
    ELSE LET score(mv) ==
                 LET m == decode_move(mv)
                     captured_value == PieceValueOn(board, opponent_start(board), m.to_sq, 0)
                     moving_value   == PieceValueOn(board, piece_start(board), m.from_sq, 100)
                 IN  IF tt_move # None /\ mv = tt_move THEN 1000000
                     ELSE IF captured_value > 0
                          THEN 10000 + captured_value - (moving_value \div 10)
                     ELSE IF mv \in Range(KillersAt(ctx.killer_moves, depth)) THEN 2000
                     ELSE HistoryAt(ctx.history_table, unpack_side(board.state.meta),
                                    m.from_sq, m.to_sq)
         IN  SortDescending(moves, [i \in 1..Len(moves) |-> score(moves[i])])

\* self.history_table[side, from_sq, to_sq] += depth * depth (search.py
\* 426): the table is an array of int32 (search.py 113), and nothing else
\* in Search writes to it
Int32Max == 2147483647

\* a + d in int32 for d >= 0: a sum above Int32Max wraps around to the
\* negative numbers
AddInt32(a, d) ==
    IF a > Int32Max - d THEN ((a - Int32Max) + (d - Int32Max)) - 2 ELSE a + d

Search_update_history(history_table, side, from_sq, to_sq, depth) ==
    [k \in DOMAIN history_table \cup { << side, from_sq, to_sq >> } |->
        IF k = << side, from_sq, to_sq >>
        THEN AddInt32(HistoryAt(history_table, side, from_sq, to_sq), depth * depth)
        ELSE history_table[k]]

\* Search._store_killer (search.py 638-646)
Search_store_killer(killer_moves, move, depth) ==
    LET old == KillersAt(killer_moves, depth)
        new == IF move \in Range(old) THEN old
               ELSE SubSeq(<< move >> \o old, 1, Min(2, Len(old) + 1))
    IN  [d \in DOMAIN killer_moves \cup {depth} |->
            IF d = depth THEN new ELSE killer_moves[d]]

\* The clock.  time.time() - start_time >= time_limit is read at three
\* places; what the clock shows there is not determined by the program, only
\* that it never runs backwards.  The model fixes, per search, the amount of
\* work (nodes + qnodes) after which the limit has passed.
Elapsed(ctx) == ctx.timed /\ ctx.nodes + ctx.qnodes >= ctx.expiry

\* ------------------------------------------------------------------------
\* FEN input (board.py 718-781).  A FEN string is modelled as the sequence
\* of its whitespace-separated parts, each part a sequence of one-character
\* strings; the placement part is already split at '/' into its rows.
\* ------------------------------------------------------------------------
Digits == { "0", "1", "2", "3", "4", "5", "6", "7", "8", "9" }

DigitVal(c) ==
    CASE c = "0" -> 0 [] c = "1" -> 1 [] c = "2" -> 2 [] c = "3" -> 3 [] c = "4" -> 4
      [] c = "5" -> 5 [] c = "6" -> 6 [] c = "7" -> 7 [] c = "8" -> 8 [] c = "9" -> 9

\* int(s) for a sequence of digit characters
RECURSIVE ParseInt(_, _)
ParseInt(s, acc) == IF s = << >> THEN acc ELSE ParseInt(Tail(s), acc * 10 + DigitVal(Head(s)))

\* ord(c) - ord('a') for a file letter
FileVal(c) ==
    CASE c = "a" -> 0 [] c = "b" -> 1 [] c = "c" -> 2 [] c = "d" -> 3
      [] c = "e" -> 4 [] c = "f" -> 5 [] c = "g" -> 6 [] c = "h" -> 7

\* piece_map: the bitboard index of a placement character
piece_map(c) ==
    CASE c = "P" -> WP [] c = "N" -> WN [] c = "B" -> WB [] c = "R" -> WR [] c = "Q" -> WQ
      [] c = "K" -> WK [] c = "p" -> BP [] c = "n" -> BN [] c = "b" -> BB [] c = "r" -> BR
      [] c = "q" -> BQ [] c = "k" -> BK

\* the <<piece_idx, square>> pairs a row string places, scanning from col_idx
RECURSIVE ParseRow(_, _, _)
ParseRow(row_str, row_idx, col_idx) ==
    IF row_str = << >> THEN {}
    ELSE IF Head(row_str) \in Digits
    THEN ParseRow(Tail(row_str), row_idx, col_idx + DigitVal(Head(row_str)))
    ELSE { << piece_map(Head(row_str)), coords_to_square(row_idx, col_idx) >> }
         \cup ParseRow(Tail(row_str), row_idx, col_idx + 1)

from_fen(fen) ==
    LET rows     == fen[1]
        placed   == UNION { ParseRow(rows[r], r - 1, 0) : r \in 1..Len(rows) }
        bb       == [p \in PieceIdx |-> { x[2] : x \in { y \in placed : y[1] = p } }]
        side     == IF fen[2] = << "w" >> THEN 0 ELSE 1
        castling ==   (IF "K" \in Range(fen[3]) THEN CASTLE_WK ELSE 0)
                    + (IF "Q" \in Range(fen[3]) THEN CASTLE_WQ ELSE 0)
                    + (IF "k" \in Range(fen[3]) THEN CASTLE_BK ELSE 0)
                    + (IF "q" \in Range(fen[3]) THEN CASTLE_BQ ELSE 0)
        ep       == IF fen[4] # << "-" >>
                    THEN coords_to_square(8 - DigitVal(fen[4][2]), FileVal(fen[4][1]))
                    ELSE -1
        halfmove == ParseInt(fen[5], 0)
        fullmove == ParseInt(fen[6], 0)
        meta     == pack_metadata(castling, ep, halfmove, side)
    IN  [state    |-> [bb |-> bb, occ |-> UnionBB(bb), meta |-> meta,
                       hash |-> compute_zobrist_hash(bb, meta)],
         fullmove |-> fullmove]

\* rnbqkbnr/pppppppp/8/8/8/8/PPPPPPPP/RNBQKBNR w KQkq - 0 1: the starting position
FEN_START ==
    << << << "r", "n", "b", "q", "k", "b", "n", "r" >>,
          << "p", "p", "p", "p", "p", "p", "p", "p" >>,
          << "8" >>,
          << "8" >>,
          << "8" >>,
          << "8" >>,
          << "P", "P", "P", "P", "P", "P", "P", "P" >>,
          << "R", "N", "B", "Q", "K", "B", "N", "R" >> >>,
       << "w" >>, << "K", "Q", "k", "q" >>, << "-" >>, << "0" >>, << "1" >> >>

\* r3k2r/8/8/8/8/8/8/R3K2R w KQkq - 0 1: both sides may castle on both wings; the rooks can capture each other
FEN_CASTLE ==
    << << << "r", "3", "k", "2", "r" >>,
          << "8" >>,
          << "8" >>,
          << "8" >>,
          << "8" >>,
          << "8" >>,
          << "8" >>,
          << "R", "3", "K", "2", "R" >> >>,
       << "w" >>, << "K", "Q", "k", "q" >>, << "-" >>, << "0" >>, << "1" >> >>

\* 1n2k3/P7/8/3pP3/1p6/8/P5p1/4K2R w K d6 0 2: en passant (at once and after a2-a4), promotions and promotion captures
FEN_SPECIAL ==
    << << << "1", "n", "2", "k", "3" >>,
          << "P", "7" >>,
          << "8" >>,
          << "3", "p", "P", "3" >>,
          << "1", "p", "6" >>,
          << "8" >>,
          << "P", "5", "p", "1" >>,
          << "4", "K", "2", "R" >> >>,
       << "w" >>, << "K" >>, << "d", "6" >>, << "0" >>, << "2" >> >>

\* ------------------------------------------------------------------------
\* Bounds of the model
\* ------------------------------------------------------------------------
\* the deepest nesting of make / make_null explored from a start position
\* 4k3/8/8/8/8/8/P7/4K3 w - - 510 300: the halfmove clock two moves from the end of its nine bits
FEN_CLOCK ==
    << << << "4", "k", "3" >>,
          << "8" >>,
          << "8" >>,
          << "8" >>,
          << "8" >>,
          << "8" >>,
          << "P", "7" >>,
          << "4", "K", "3" >> >>,
       << "w" >>, << "-" >>, << "-" >>, << "5", "1", "0" >>, << "3", "0", "0" >> >>

MaxPly == 2

\* the positions the position layer is explored from
StartFens == { FEN_START, FEN_CASTLE, FEN_SPECIAL, FEN_CLOCK }

\* ------------------------------------------------------------------------
\* The position as a state machine
\*   board   the Board object (state array and fullmove counter)
\*   stack   the caller's pending undo records, innermost last; each entry
\*           also remembers the board before its make (for the claims)
\*   lastOp  the operation that produced the current state, with the move
\*           it was given and what the board was expected to return to
\* ------------------------------------------------------------------------
\*   tt       the TranspositionTable object
\*   ttOp     the last table operation, its arguments, what it returned and
\*            the table it was applied to (for the claims)
\*   ttFilled for every slot written since construction or the last clear,
\*            the arguments of the store that last overwrote it
\*   search   the Search object apart from its table: killer_moves,
\*            history_table, stop_search, null_move_active, the node
\*            counters of its stats, and time_limit (whether one is set and
\*            the amount of work after which the clock has passed it)
\*   call     the position of a call of search(): its arguments, the locals
\*            of the iterative-deepening loop, what it returned, and (for
\*            the claims) the board it was given and the result of the last
\*            iteration that ended with the stop flag down
\*   frames   the call stack of the recursive methods of the search
\*   ret      what the activation that returned last returned
\*   lastCall the last call of a function or constructor that leaves the
\*            objects above alone: what was called, its argument, the
\*            exception it raised ("none" if it returned) and its result
VARIABLES board, stack, lastOp, tt, ttOp, ttFilled, search, call, frames, ret,
          lastCall

vars == << board, stack, lastOp, tt, ttOp, ttFilled, search, call, frames, ret,
           lastCall >>

searchVars == << search, call, frames, ret >>

boardVars == << board, stack, lastOp >>

ttVars == << tt, ttOp, ttFilled >>

NoOp == [op |-> "init", move |-> 0, prev |-> << >>]

NoTTOp == [op |-> "init", n |-> 0]

NoLastCall == [fn |-> "none"]

\* Search.__init__ builds its table with tt_size_mb = 64 (search.py 99, 109)
DefaultTTSizeMb == 64

InitTT(size_mb) ==
    /\ tt = TranspositionTable(size_mb)
    /\ ttOp = NoTTOp
    /\ ttFilled = << >>

\* Search.__init__ (search.py 99-121) apart from the table
NewSearch ==
    [killer_moves |-> << >>, history_table |-> << >>, stop_search |-> FALSE,
     null_move_active |-> FALSE, nodes |-> 0, qnodes |-> 0, check_extensions |-> 0,
     timed |-> FALSE, expiry |-> 0]

NoCall == [phase |-> "none"]

InitSearch ==
    /\ search = NewSearch
    /\ call = NoCall
    /\ frames = << >>
    /\ ret = 0

Init ==
    /\ board \in { from_fen(f) : f \in StartFens }
    /\ stack = << >>
    /\ lastOp = NoOp
    /\ InitTT(DefaultTTSizeMb)
    /\ InitSearch
    /\ lastCall = NoLastCall

\* u := board.make_move(m) for a move m of the legal move list
Make ==
    /\ Len(stack) < MaxPly
    /\ \E move \in Range(Moves_generate(board)) :
         LET r == Board_make_move(board, move)
         IN  /\ board' = r.board
             /\ stack' = Append(stack, [kind |-> "move", move |-> move,
                                        undo |-> r.undo, before |-> board])
             /\ lastOp' = [op |-> "make", move |-> move, prev |-> << board >>]
             /\ UNCHANGED << ttVars, searchVars, lastCall >>

\* board.unmake_move(m, u) for the innermost pending make
Unmake ==
    /\ stack # << >>
    /\ stack[Len(stack)].kind = "move"
    /\ LET top == stack[Len(stack)]
       IN  /\ board' = Board_unmake_move(board, top.move, top.undo)
           /\ stack' = SubSeq(stack, 1, Len(stack) - 1)
           /\ lastOp' = [op |-> "unmake", move |-> top.move, prev |-> << top.before >>]
           /\ UNCHANGED << ttVars, searchVars, lastCall >>

Next == Make \/ Unmake

\* make and unmake only
Spec == Init /\ [][Next]_vars

\* u := board.make_null_move(), as null-move pruning does it: never when the
\* side to move is in check
MakeNull ==
    /\ Len(stack) < MaxPly
    /\ ~ Moves_is_check(board)
    /\ LET r == Board_make_null_move(board)
       IN  /\ board' = r.board
           /\ stack' = Append(stack, [kind |-> "null", move |-> 0,
                                      undo |-> r.undo, before |-> board])
           /\ lastOp' = [op |-> "make_null", move |-> 0, prev |-> << board >>]
           /\ UNCHANGED << ttVars, searchVars, lastCall >>

\* board.unmake_null_move(u) for the innermost pending null move
UnmakeNull ==
    /\ stack # << >>
    /\ stack[Len(stack)].kind = "null"
    /\ LET top == stack[Len(stack)]
       IN  /\ board' = Board_unmake_null_move(board, top.undo)
           /\ stack' = SubSeq(stack, 1, Len(stack) - 1)
           /\ lastOp' = [op |-> "unmake_null", move |-> 0, prev |-> << top.before >>]
           /\ UNCHANGED << ttVars, searchVars, lastCall >>

NextNull == Make \/ Unmake \/ MakeNull \/ UnmakeNull

\* make, unmake, make_null and unmake_null
SpecNull == Init /\ [][NextNull]_vars

\* ------------------------------------------------------------------------
\* The transposition table used on its own: stores, probes, new_search and
\* clear in any order, with hashes that share a slot and the hash 0.
\* ------------------------------------------------------------------------
MaxTTOps == 3

MaxAge == 1

\* the hash values 0, 1 and 65537 (which shares slot 1 with the hash 1)
TTHashes == { {}, {BitKey(0)}, {BitKey(0), BitKey(16)} }

\* (score, best_move, depth, node_type) of the stores; with the window
\* (-10, 10) they give usable and unusable bounds, with and without a move
TTEntries ==
    { << 30, 77, 2, EXACT >>, << -20, 0, 1, EXACT >>,
      << 30, 77, 1, LOWER_BOUND >>, << -20, 77, 2, LOWER_BOUND >>,
      << -20, 77, 1, UPPER_BOUND >>, << 30, 0, 2, UPPER_BOUND >> }

TTProbeDepths == { 0, 2, 3 }

\* (alpha, beta)
TTWindows == { << -10, 10 >> }

\* the smallest table: TranspositionTable(size_mb=1) has 65536 slots
InitTable ==
    /\ board = from_fen(FEN_START)
    /\ stack = << >>
    /\ lastOp = NoOp
    /\ InitTT(1)
    /\ InitSearch
    /\ lastCall = NoLastCall

\* tt.store(zobrist, score, best_move, depth, node_type)
TTStore ==
    /\ ttOp.n < MaxTTOps
    /\ \E zobrist \in TTHashes, entry \in TTEntries :
         LET score     == entry[1]
             best_move == entry[2]
             depth     == entry[3]
             node_type == entry[4]
             index == TTIndex(tt, zobrist)
             after == TT_store(tt, zobrist, score, best_move, depth, node_type)
             args  == [zobrist |-> zobrist, score |-> score, best_move |-> best_move,
                       depth |-> depth, node_type |-> node_type]
         IN  /\ tt' = after
             /\ ttOp' = [op |-> "store", n |-> ttOp.n + 1, args |-> args,
                         index |-> index, before |-> tt]
             /\ ttFilled' = IF TT_replace(tt, TTSlot(tt, index), zobrist, depth)
                            THEN [i \in DOMAIN ttFilled \cup {index} |->
                                     IF i = index THEN args ELSE ttFilled[i]]
                            ELSE ttFilled
    /\ UNCHANGED << boardVars, searchVars, lastCall >>

\* tt.probe(zobrist, depth, alpha, beta)
TTProbe ==
    /\ ttOp.n < MaxTTOps
    /\ \E zobrist \in TTHashes, depth \in TTProbeDepths, window \in TTWindows :
         /\ ttOp' = [op |-> "probe", n |-> ttOp.n + 1,
                     args |-> [zobrist |-> zobrist, depth |-> depth,
                               alpha |-> window[1], beta |-> window[2]],
                     index |-> TTIndex(tt, zobrist), before |-> tt,
                     result |-> TT_probe(tt, zobrist, depth, window[1], window[2])]
    /\ UNCHANGED << tt, ttFilled >>
    /\ UNCHANGED << boardVars, searchVars, lastCall >>

\* tt.new_search()
TTNewSearch ==
    /\ ttOp.n < MaxTTOps
    /\ tt.current_age < MaxAge
    /\ tt' = TT_new_search(tt)
    /\ ttOp' = [op |-> "new_search", n |-> ttOp.n + 1, before |-> tt]
    /\ UNCHANGED ttFilled
    /\ UNCHANGED << boardVars, searchVars, lastCall >>

\* tt.clear()
TTClear ==
    /\ ttOp.n < MaxTTOps
    /\ tt' = TT_clear(tt)
    /\ ttOp' = [op |-> "clear", n |-> ttOp.n + 1, before |-> tt]
    /\ ttFilled' = << >>
    /\ UNCHANGED << boardVars, searchVars, lastCall >>

NextTT == TTStore \/ TTProbe \/ TTNewSearch \/ TTClear

SpecTT == InitTable /\ [][NextTT]_vars

\* ------------------------------------------------------------------------
\* The positions search() is explored on
\* ------------------------------------------------------------------------
\* 4k3/8/8/8/8/8/8/4K3 b - - 0 1: bare kings, Black to move
FEN_KINGS ==
    << << << "4", "k", "3" >>,
          << "8" >>,
          << "8" >>,
          << "8" >>,
          << "8" >>,
          << "8" >>,
          << "8" >>,
          << "4", "K", "3" >> >>,
       << "b" >>, << "-" >>, << "-" >>, << "0" >>, << "1" >> >>

\* 8/8/4k3/8/8/2K5/8/8 b - - 0 1: bare kings, the white king away from e1
FEN_KINGS_APART ==
    << << << "8" >>,
          << "8" >>,
          << "4", "k", "3" >>,
          << "8" >>,
          << "8" >>,
          << "2", "K", "5" >>,
          << "8" >>,
          << "8" >> >>,
       << "b" >>, << "-" >>, << "-" >>, << "0" >>, << "1" >> >>

\* 8/5k2/8/8/8/2K5/1R6/8 w - - 0 1: king and rook against king
FEN_ROOK ==
    << << << "8" >>,
          << "5", "k", "2" >>,
          << "8" >>,
          << "8" >>,
          << "8" >>,
          << "2", "K", "5" >>,
          << "1", "R", "6" >>,
          << "8" >> >>,
       << "w" >>, << "-" >>, << "-" >>, << "0" >>, << "1" >> >>

\* 8/5k2/8/8/8/2K5/1R6/8 b - - 0 1: king and rook against king, the king to move
FEN_ROOK_BLACK ==
    << << << "8" >>,
          << "5", "k", "2" >>,
          << "8" >>,
          << "8" >>,
          << "8" >>,
          << "2", "K", "5" >>,
          << "1", "R", "6" >>,
          << "8" >> >>,
       << "b" >>, << "-" >>, << "-" >>, << "0" >>, << "1" >> >>

\* 7k/5Q2/6K1/8/8/8/8/8 b - - 0 1: Black to move has no legal move and is not in check
FEN_STALEMATE ==
    << << << "7", "k" >>,
          << "5", "Q", "2" >>,
          << "6", "K", "1" >>,
          << "8" >>,
          << "8" >>,
          << "8" >>,
          << "8" >>,
          << "8" >> >>,
       << "b" >>, << "-" >>, << "-" >>, << "0" >>, << "1" >> >>

\* 7k/6Q1/6K1/8/8/8/8/8 b - - 0 1: Black to move has no legal move and is in check
FEN_CHECKMATE ==
    << << << "7", "k" >>,
          << "6", "Q", "1" >>,
          << "6", "K", "1" >>,
          << "8" >>,
          << "8" >>,
          << "8" >>,
          << "8" >>,
          << "8" >> >>,
       << "b" >>, << "-" >>, << "-" >>, << "0" >>, << "1" >> >>

\* 6k1/5ppp/8/8/8/8/8/R3K3 w - - 0 1: Ra8 mates; White has other moves
FEN_BACK_RANK ==
    << << << "6", "k", "1" >>,
          << "5", "p", "p", "p" >>,
          << "8" >>,
          << "8" >>,
          << "8" >>,
          << "8" >>,
          << "8" >>,
          << "R", "3", "K", "3" >> >>,
       << "w" >>, << "-" >>, << "-" >>, << "0" >>, << "1" >> >>

\* 4rkr1/4p1p1/8/8/8/8/R4nPP/6NK w - - 0 1: White is in check from the knight; the only legal move, Rxf2, mates
FEN_FORCED_MATE ==
    << << << "4", "r", "k", "r", "1" >>,
          << "4", "p", "1", "p", "1" >>,
          << "8" >>,
          << "8" >>,
          << "8" >>,
          << "8" >>,
          << "R", "4", "n", "P", "P" >>,
          << "6", "N", "K" >> >>,
       << "w" >>, << "-" >>, << "-" >>, << "0" >>, << "1" >> >>

\* r1bqkb1r/pppp1ppp/2n2n2/4p2Q/2B1P3/8/PPPP1PPP/RNB1K1NR w KQkq - 0 1: the position of test_mate_in_one (tests/test_search.py 72): Qxf7 mates
FEN_SCHOLAR ==
    << << << "r", "1", "b", "q", "k", "b", "1", "r" >>,
          << "p", "p", "p", "p", "1", "p", "p", "p" >>,
          << "2", "n", "2", "n", "2" >>,
          << "4", "p", "2", "Q" >>,
          << "2", "B", "1", "P", "3" >>,
          << "8" >>,
          << "P", "P", "P", "P", "1", "P", "P", "P" >>,
          << "R", "N", "B", "1", "K", "1", "N", "R" >> >>,
       << "w" >>, << "K", "Q", "k", "q" >>, << "-" >>, << "0" >>, << "1" >> >>

\* 4k2r/8/8/8/8/8/8/4K3 w k - 0 1: after any move of White, Black may castle on the kingside
FEN_SHORT_CASTLE ==
    << << << "4", "k", "2", "r" >>,
          << "8" >>,
          << "8" >>,
          << "8" >>,
          << "8" >>,
          << "8" >>,
          << "8" >>,
          << "4", "K", "3" >> >>,
       << "w" >>, << "k" >>, << "-" >>, << "0" >>, << "1" >> >>

\* the deepest search asked for on the small endgames
MaxIterations == 4

Untimed(fen, depth) == [fen |-> fen, depth |-> depth, timed |-> FALSE, expiry |-> 0]

Timed(fen, depth, expiry) == [fen |-> fen, depth |-> depth, timed |-> TRUE, expiry |-> expiry]

\* The calls explored: the position, the depth, and for a call with a time
\* limit the work after which the clock has passed it.  On FEN_ROOK the
\* fourth iteration ends after 966 nodes and 703 quiescence nodes, so a
\* clock that passes the limit then is first read at the 1000th node, inside
\* the fifth iteration.  On FEN_ROOK_BLACK the third iteration ends before
\* the clock passes 900, and the 1000th node is a node of White in the fourth.
SearchCases ==
    { Untimed(FEN_KINGS, MaxIterations), Timed(FEN_KINGS, MaxIterations, 20),
      Untimed(FEN_KINGS_APART, MaxIterations),
      Untimed(FEN_STALEMATE, 2), Untimed(FEN_CHECKMATE, 2),
      Untimed(FEN_FORCED_MATE, 2), Untimed(FEN_BACK_RANK, 2), Untimed(FEN_SCHOLAR, 2),
      Untimed(FEN_SHORT_CASTLE, 1), Untimed(FEN_ROOK_BLACK, 2),
      Timed(FEN_ROOK, 5, 1670), Timed(FEN_ROOK_BLACK, 4, 900) }

\* ------------------------------------------------------------------------
\* search() as a state machine.  The call runs alone; it is taken in steps,
\* one per stretch of code between two calls or returns of the recursive
\* methods.  frames is the call stack of _search_root, _negamax and
\* _quiescence (innermost last): each frame holds the locals of its
\* activation and pc, the place it will continue from.  ret is what the
\* activation that returned last returned.
\* ------------------------------------------------------------------------
Top == frames[Len(frames)]

Pop == SubSeq(frames, 1, Len(frames) - 1)

ReplaceTop(f) == [frames EXCEPT ![Len(frames)] = f]

Push(f, callee) == Append(ReplaceTop(f), callee)

Running(kind, pc) == frames # << >> /\ Top.kind = kind /\ Top.pc = pc

\* what a step may change
Same == [frames |-> frames, ret |-> ret, board |-> board, search |-> search, tt |-> tt]

Becomes(o) ==
    /\ frames' = o.frames
    /\ ret' = o.ret
    /\ board' = o.board
    /\ search' = o.search
    /\ tt' = o.tt

\* The frames carry three fields that the code does not have; no step reads
\* them to decide what it does.  entry_alpha is the alpha the activation was
\* called with (the code overwrites the parameter).  aborted says of the
\* call that the activation made last that it was ended by the clock and
\* returned the neutral 0, or that it returned a score it had taken from
\* such a call; best_aborted says the same of the activation's own best
\* score (of its alpha in _quiescence).
Marked(fs, aborted) ==
    IF fs = << >> THEN fs ELSE [fs EXCEPT ![Len(fs)].aborted = aborted]

ReturnMarked(o, v, aborted) == [o EXCEPT !.frames = Marked(Pop, aborted), !.ret = v]

\* return v: the activation ends and its caller finds v
Return(o, v) == ReturnMarked(o, v, FALSE)

\* the clock has passed the limit: self.stop_search = True; return 0
\* (search.py 273-276, 453-456)
ReturnStopped(o) == ReturnMarked([o EXCEPT !.search.stop_search = TRUE], 0, TRUE)

RootFrame(depth, alpha, beta, aspiration, ordered_moves) ==
    [kind |-> "root", pc |-> "loop", depth |-> depth, alpha |-> alpha, beta |-> beta,
     aspiration |-> aspiration, ordered_moves |-> ordered_moves, i |-> 1,
     best_move |-> None, best_score |-> -MATE_SCORE, undo |-> << >>,
     entry_alpha |-> alpha, aborted |-> FALSE, best_aborted |-> FALSE]

NegamaxFrame(depth, alpha, beta) ==
    [kind |-> "negamax", pc |-> "enter", depth |-> depth, alpha |-> alpha, beta |-> beta,
     zobrist |-> {}, tt_move |-> None, legal_moves |-> << >>, in_check |-> FALSE,
     ordered_moves |-> << >>, i |-> 1, best_score |-> -MATE_SCORE, best_move |-> None,
     moves_searched |-> 0, has_futility_base |-> FALSE, futility_base |-> 0,
     undo |-> << >>, is_capture |-> FALSE, new_depth |-> 0,
     entry_alpha |-> alpha, aborted |-> FALSE, best_aborted |-> FALSE]

QuiescenceFrame(alpha, beta) ==
    [kind |-> "quiescence", pc |-> "enter", alpha |-> alpha, beta |-> beta,
     captures |-> << >>, i |-> 1, undo |-> << >>,
     entry_alpha |-> alpha, aborted |-> FALSE, best_aborted |-> FALSE]

\* a plausible slip: a side that is mated gets the score of a mate
SearchEarlyReturnScoringMate(b, legal_moves) ==
    IF Len(legal_moves) = 0
    THEN [returns |-> TRUE, move |-> None,
          score |-> IF Moves_is_check(b) THEN -MATE_SCORE ELSE 0]
    ELSE IF Len(legal_moves) = 1
    THEN [returns |-> TRUE, move |-> legal_moves[1], score |-> 0]
    ELSE [returns |-> FALSE, move |-> None, score |-> 0]

\* the two returns of search() ahead of the loop (search.py 144-148)
SearchEarlyReturn(b, legal_moves) ==
    IF Len(legal_moves) = 0
    THEN [returns |-> TRUE, move |-> None, score |-> 0]
    ELSE IF Len(legal_moves) = 1
    THEN [returns |-> TRUE, move |-> legal_moves[1], score |-> 0]
    ELSE [returns |-> FALSE, move |-> None, score |-> 0]

\* the positions and arguments search() is called with
InitSearchCall ==
    /\ \E c \in SearchCases :
         /\ board = from_fen(c.fen)
         /\ call = [phase |-> "pending", depth |-> c.depth, timed |-> c.timed,
                    expiry |-> c.expiry, entry_board |-> from_fen(c.fen),
                    legal_moves |-> << >>, current_depth |-> 0,
                    best_move |-> None, best_score |-> 0,
                    aspiration |-> FALSE, alpha |-> 0, beta |-> 0,
                    completed_depth |-> 0, completed_move |-> None,
                    completed_score |-> 0, stopped_depth |-> 0,
                    ret_move |-> None, ret_score |-> 0, ended |-> ""]
    /\ stack = << >>
    /\ lastOp = NoOp
    /\ InitTT(DefaultTTSizeMb)
    /\ search = NewSearch
    /\ lastCall = NoLastCall
    /\ frames = << >>
    /\ ret = 0

\* search(board, depth, time_limit) up to the loop (search.py 135-151)
SearchCall ==
    /\ call.phase = "pending"
    /\ \E legal_moves \in { Moves_generate(board) } :
       \E early \in { SearchEarlyReturn(board, legal_moves) } :
           /\ search' = [search EXCEPT !.nodes = 0, !.qnodes = 0, !.check_extensions = 0,
                                       !.stop_search = FALSE,
                                       !.timed = call.timed, !.expiry = call.expiry]
           /\ tt' = TT_new_search(tt)
           /\ call' = IF early.returns
                      THEN [call EXCEPT !.phase = "returned", !.ret_move = early.move,
                                        !.ret_score = early.score, !.ended = "early"]
                      ELSE [call EXCEPT !.phase = "loop", !.legal_moves = legal_moves,
                                        !.current_depth = 1,
                                        !.best_move = legal_moves[1],
                                        !.best_score = -MATE_SCORE]
    /\ UNCHANGED << boardVars, ttOp, ttFilled, frames, ret, lastCall >>

\* the probe and the ordering that open _search_root and
\* _search_root_aspiration (search.py 207-212, 236-241)
RootOrdered(depth, moves, alpha, beta) ==
    LET tt_entry == TT_probe(tt, board.state.hash, depth, alpha, beta)
        tt_move  == IF tt_entry.found THEN tt_entry.best_move ELSE None
    IN  Search_order_moves(search, board, moves, depth, tt_move)

\* the loop of search() takes its next depth and calls the root search, with
\* an aspiration window or without (search.py 154-165, 176-178)
IterationStart ==
    /\ call.phase = "loop"
    /\ call.current_depth <= Min(call.depth, max_depth)
    /\ ~ search.stop_search
    /\ LET aspiration == /\ call.current_depth >= ASPIRATION_MIN_DEPTH
                         /\ Abs(call.best_score) < MATE_SCORE - 100
           alpha == IF aspiration THEN call.best_score - ASPIRATION_WINDOW ELSE -MATE_SCORE
           beta  == IF aspiration THEN call.best_score + ASPIRATION_WINDOW ELSE MATE_SCORE
       IN  /\ frames' = << RootFrame(call.current_depth, alpha, beta, aspiration,
                                     RootOrdered(call.current_depth, call.legal_moves,
                                                 alpha, beta)) >>
           /\ call' = [call EXCEPT !.phase = "searching", !.aspiration = aspiration,
                                   !.alpha = alpha, !.beta = beta]
    /\ UNCHANGED << boardVars, ttVars, search, ret, lastCall >>

\* the root search has returned (move, score): a failed aspiration search is
\* repeated with the full window; otherwise the result is adopted and the
\* loop goes on, or ends on a mate score or on the clock (search.py 167-196)
IterationResult ==
    /\ call.phase = "result"
    /\ LET move  == ret.move
           score == ret.score
           bm    == IF move # None THEN move ELSE call.best_move
           bs    == IF move # None THEN score ELSE call.best_score
           c1    == [call EXCEPT !.best_move = bm, !.best_score = bs,
                        !.completed_depth = IF search.stop_search THEN @
                                            ELSE call.current_depth,
                        !.completed_move  = IF search.stop_search THEN @ ELSE bm,
                        !.completed_score = IF search.stop_search THEN @ ELSE bs,
                        !.stopped_depth   = IF search.stop_search
                                            THEN call.current_depth ELSE @]
       IN  IF call.aspiration /\ (score <= call.alpha \/ score >= call.beta)
           THEN /\ frames' = << RootFrame(call.current_depth, -MATE_SCORE, MATE_SCORE, FALSE,
                                          RootOrdered(call.current_depth, call.legal_moves,
                                                      -MATE_SCORE, MATE_SCORE)) >>
                /\ call' = [call EXCEPT !.phase = "searching", !.aspiration = FALSE]
           ELSE /\ frames' = frames
                /\ call' = IF Abs(score) >= MATE_SCORE - 100
                           THEN [c1 EXCEPT !.phase = "returned", !.ret_move = bm,
                                           !.ret_score = bs, !.ended = "mate"]
                           ELSE IF Elapsed(search)
                           THEN [c1 EXCEPT !.phase = "returned", !.ret_move = bm,
                                           !.ret_score = bs, !.ended = "time"]
                           ELSE [c1 EXCEPT !.phase = "loop", !.current_depth = @ + 1]
    /\ UNCHANGED << boardVars, ttVars, search, ret, lastCall >>

\* the loop ends, by its range or by the stop flag, and search returns
\* (search.py 154-156, 198)
SearchReturn ==
    /\ call.phase = "loop"
    /\ call.current_depth > Min(call.depth, max_depth) \/ search.stop_search
    /\ call' = [call EXCEPT !.phase = "returned", !.ret_move = call.best_move,
                            !.ret_score = call.best_score,
                            !.ended = IF search.stop_search THEN "stop" ELSE "depth"]
    /\ UNCHANGED << boardVars, ttVars, search, frames, ret, lastCall >>

\* _search_root / _search_root_aspiration: the next root move is made and
\* searched (search.py 214-216, 243-245)
RootMove ==
    /\ Running("root", "loop")
    /\ Top.i <= Len(Top.ordered_moves)
    /\ \E made \in { Board_make_move(board, Top.ordered_moves[Top.i]) } :
         Becomes([Same EXCEPT
                    !.board  = made.board,
                    !.frames = Push([Top EXCEPT !.pc = "back", !.undo = made.undo],
                                    NegamaxFrame(Top.depth - 1, -Top.beta, -Top.alpha))])
    /\ UNCHANGED << stack, lastOp, ttOp, ttFilled, call, lastCall >>

\* the root move has been searched: it is unmade and scored; the aspiration
\* variant returns at once on a score of beta or more (search.py 216-223,
\* 245-256)
RootBack ==
    /\ Running("root", "back")
    /\ LET f     == Top
           move  == f.ordered_moves[f.i]
           score == -ret
           bs    == IF score > f.best_score THEN score ELSE f.best_score
           bm    == IF score > f.best_score THEN move ELSE f.best_move
           fail  == f.aspiration /\ score >= f.beta
           o     == [Same EXCEPT !.board = Board_unmake_move(board, move, f.undo)]
       IN  /\ \E n \in { IF fail
                         THEN Return(o, [move |-> bm, score |-> bs])
                         ELSE [o EXCEPT !.frames =
                                 ReplaceTop([f EXCEPT !.pc = "loop", !.i = @ + 1,
                                                      !.best_score = bs, !.best_move = bm,
                                                      !.best_aborted =
                                                          IF score > f.best_score
                                                          THEN f.aborted ELSE @,
                                                      !.alpha = Max(@, score)])] } :
                 Becomes(n)
           /\ call' = IF fail THEN [call EXCEPT !.phase = "result"] ELSE call
    /\ UNCHANGED << stack, lastOp, ttOp, ttFilled, lastCall >>

\* the root moves are exhausted: the result is stored and returned
\* (search.py 225-229, 258-262)
RootReturn ==
    /\ Running("root", "loop")
    /\ Top.i > Len(Top.ordered_moves)
    /\ LET f      == Top
           stores == /\ f.best_move # None
                     /\ f.aspiration => f.best_score > f.alpha
       IN  Becomes(Return([Same EXCEPT
                             !.tt = IF stores
                                    THEN TT_store(tt, board.state.hash, f.best_score,
                                                  f.best_move, f.depth, EXACT)
                                    ELSE tt],
                          [move |-> f.best_move, score |-> f.best_score]))
    /\ call' = [call EXCEPT !.phase = "result"]
    /\ UNCHANGED << stack, lastOp, ttOp, ttFilled, lastCall >>

\* _negamax from move ordering up to the loop (search.py 339-353)
NegamaxOrdered(f, srch, b) ==
    LET has_fb == /\ f.depth \in DOMAIN FUTILITY_MARGIN
                  /\ ~ f.in_check
                  /\ Abs(f.alpha) < MATE_SCORE - 100
    IN  [f EXCEPT !.pc = "loop",
                  !.ordered_moves = Search_order_moves(srch, b, f.legal_moves,
                                                       f.depth, f.tt_move),
                  !.has_futility_base = has_fb,
                  !.futility_base = IF has_fb THEN Search_evaluate(b) ELSE 0]

\* _negamax from its entry to its first call or return: the node count and
\* the clock, the probe, the leaf, mate and stalemate, reverse futility
\* pruning, and the null move (search.py 270-328).  s1 is the search with
\* this node counted; made is what board.make_null_move() gives.
NegamaxEntered(f, s1, tt_entry, legal_moves, in_check, static_eval, made) ==
    LET o  == [Same EXCEPT !.search = s1]
        f1 == [f EXCEPT !.zobrist = board.state.hash,
                        !.tt_move = IF tt_entry.found THEN tt_entry.best_move ELSE None,
                        !.legal_moves = legal_moves,
                        !.in_check = in_check]
    IN  IF s1.nodes % 1000 = 0 /\ Elapsed(s1)
        THEN ReturnStopped(o)
        ELSE IF tt_entry.found /\ tt_entry.has_score
        THEN Return(o, tt_entry.score)
        ELSE IF f.depth <= 0
        THEN \* return self._quiescence(board, alpha, beta)
             [o EXCEPT !.frames = ReplaceTop(QuiescenceFrame(f.alpha, f.beta))]
        ELSE IF Len(legal_moves) = 0
        THEN Return(o, IF in_check THEN -MATE_SCORE + (max_depth - f.depth)
                       ELSE DRAW_SCORE)
        ELSE IF /\ f.depth \in DOMAIN REVERSE_FUTILITY_MARGIN
                /\ ~ in_check
                /\ Abs(f.beta) < MATE_SCORE - 100
                /\ static_eval - REVERSE_FUTILITY_MARGIN[f.depth] >= f.beta
        THEN Return(o, static_eval)
        ELSE IF /\ ~ search.null_move_active
                /\ ~ in_check
                /\ f.depth >= NULL_MOVE_MIN_DEPTH
                /\ f.beta < MATE_SCORE - 100
        THEN [o EXCEPT !.search.null_move_active = TRUE,
                       !.board = made.board,
                       !.frames = Push([f1 EXCEPT !.pc = "null", !.undo = made.undo],
                                       NegamaxFrame(f.depth - 1 - NULL_MOVE_REDUCTION,
                                                    -f.beta, -f.beta + 1))]
        ELSE [o EXCEPT !.frames = ReplaceTop(NegamaxOrdered(f1, s1, board))]

NegamaxEnter ==
    /\ Running("negamax", "enter")
    /\ \E n \in { NegamaxEntered(Top, [search EXCEPT !.nodes = @ + 1],
                                  TT_probe(tt, board.state.hash, Top.depth, Top.alpha,
                                           Top.beta),
                                  Moves_generate(board), Moves_is_check(board),
                                  Search_evaluate(board), Board_make_null_move(board)) } :
         Becomes(n)
    /\ UNCHANGED << stack, lastOp, ttOp, ttFilled, call, lastCall >>

\* the null-move search has returned: the null move is unmade, and the node
\* is cut off or goes on to its moves (search.py 328-353)
NegamaxNullBack ==
    /\ Running("negamax", "null")
    /\ LET f     == Top
           score == -ret
           s1    == [search EXCEPT !.null_move_active = FALSE]
           b1    == Board_unmake_null_move(board, f.undo)
       IN  \E n \in { IF score >= f.beta
                      THEN Return([Same EXCEPT !.board = b1, !.search = s1], f.beta)
                      ELSE [Same EXCEPT !.board = b1, !.search = s1,
                                        !.frames = ReplaceTop(NegamaxOrdered(f, s1, b1))] } :
             Becomes(n)
    /\ UNCHANGED << stack, lastOp, ttOp, ttFilled, call, lastCall >>

\* a plausible slip: the extension is given to every move, not only to one
\* that gives check
NegamaxMovedAlwaysExtending(f, is_capture, made, gives_check) ==
    LET new_depth == f.depth
        reduce    == /\ f.moves_searched >= LMR_FULL_DEPTH_MOVES
                     /\ f.depth >= LMR_MIN_DEPTH
                     /\ ~ f.in_check
                     /\ ~ gives_check
                     /\ ~ is_capture
    IN  IF /\ f.has_futility_base
           /\ ~ is_capture
           /\ f.moves_searched > 0
           /\ f.futility_base + FUTILITY_MARGIN[f.depth] <= f.alpha
        THEN [Same EXCEPT !.frames = ReplaceTop([f EXCEPT !.i = @ + 1])]
        ELSE [Same EXCEPT
                !.board  = made.board,
                !.search.check_extensions = IF gives_check THEN @ + 1 ELSE @,
                !.frames = Push([f EXCEPT !.pc = IF reduce THEN "reduced" ELSE "full",
                                          !.undo = made.undo,
                                          !.is_capture = is_capture,
                                          !.new_depth = new_depth],
                                IF reduce
                                THEN NegamaxFrame(new_depth - LMR_REDUCTION,
                                                  -f.alpha - 1, -f.alpha)
                                ELSE NegamaxFrame(new_depth, -f.beta, -f.alpha))]

\* the move loop of _negamax takes its next move: it is skipped by futility
\* pruning, or made and searched, at reduced depth first if it comes late
\* (search.py 355-405).  made is what board.make_move(move) gives.
NegamaxMoved(f, is_capture, made, gives_check) ==
    LET new_depth == IF gives_check THEN f.depth ELSE f.depth - 1
        reduce    == /\ f.moves_searched >= LMR_FULL_DEPTH_MOVES
                     /\ f.depth >= LMR_MIN_DEPTH
                     /\ ~ f.in_check
                     /\ ~ gives_check
                     /\ ~ is_capture
    IN  IF /\ f.has_futility_base
           /\ ~ is_capture
           /\ f.moves_searched > 0
           /\ f.futility_base + FUTILITY_MARGIN[f.depth] <= f.alpha
        THEN [Same EXCEPT !.frames = ReplaceTop([f EXCEPT !.i = @ + 1])]
        ELSE [Same EXCEPT
                !.board  = made.board,
                !.search.check_extensions = IF gives_check THEN @ + 1 ELSE @,
                !.frames = Push([f EXCEPT !.pc = IF reduce THEN "reduced" ELSE "full",
                                          !.undo = made.undo,
                                          !.is_capture = is_capture,
                                          !.new_depth = new_depth],
                                IF reduce
                                THEN NegamaxFrame(new_depth - LMR_REDUCTION,
                                                  -f.alpha - 1, -f.alpha)
                                ELSE NegamaxFrame(new_depth, -f.beta, -f.alpha))]

NegamaxMove ==
    /\ Running("negamax", "loop")
    /\ Top.i <= Len(Top.ordered_moves)
    /\ \E made \in { Board_make_move(board, Top.ordered_moves[Top.i]) } :
       \E n \in { NegamaxMoved(Top, Search_is_capture(Top.ordered_moves[Top.i], board),
                               made, Moves_is_check(made.board)) } :
           Becomes(n)
    /\ UNCHANGED << stack, lastOp, ttOp, ttFilled, call, lastCall >>

\* the move has its score: it is unmade and counted, best and alpha are
\* updated, and on a cutoff history and killers are updated and the loop is
\* left (search.py 407-429)
NegamaxScored(f, score) ==
    LET move   == f.ordered_moves[f.i]
        b1     == Board_unmake_move(board, move, f.undo)
        a2     == Max(f.alpha, score)
        m      == decode_move(move)
        sd     == unpack_side(b1.state.meta)
        cutoff == a2 >= f.beta
        s1     == IF cutoff /\ ~ f.is_capture
                  THEN [search EXCEPT
                          !.history_table =
                              Search_update_history(@, sd, m.from_sq, m.to_sq, f.depth),
                          !.killer_moves = Search_store_killer(@, move, f.depth)]
                  ELSE search
    IN  [Same EXCEPT
           !.board  = b1,
           !.search = s1,
           !.frames = ReplaceTop(
               [f EXCEPT !.pc = IF cutoff THEN "tail" ELSE "loop",
                         !.i = IF cutoff THEN @ ELSE @ + 1,
                         !.moves_searched = @ + 1,
                         !.best_score = IF score > f.best_score THEN score ELSE @,
                         !.best_move  = IF score > f.best_score THEN move ELSE @,
                         !.best_aborted = IF score > f.best_score THEN f.aborted ELSE @,
                         !.alpha = a2])]

\* the reduced search has returned: a score above alpha sends the move to a
\* search at full depth, any other score is the move's score
\* (search.py 393-401)
NegamaxReducedBack ==
    /\ Running("negamax", "reduced")
    /\ \E n \in { IF -ret > Top.alpha
                  THEN [Same EXCEPT !.frames =
                          Push([Top EXCEPT !.pc = "full"],
                               NegamaxFrame(Top.new_depth, -Top.beta, -Top.alpha))]
                  ELSE NegamaxScored(Top, -ret) } :
         Becomes(n)
    /\ UNCHANGED << stack, lastOp, ttOp, ttFilled, call, lastCall >>

\* the search at full depth has returned (search.py 398, 405)
NegamaxBack ==
    /\ Running("negamax", "full")
    /\ \E n \in { NegamaxScored(Top, -ret) } : Becomes(n)
    /\ UNCHANGED << stack, lastOp, ttOp, ttFilled, call, lastCall >>

\* after the loop: the store and the return (search.py 431-436)
NegamaxReturn ==
    /\ \/ Running("negamax", "tail")
       \/ Running("negamax", "loop") /\ Top.i > Len(Top.ordered_moves)
    /\ LET f == Top
       IN  Becomes(ReturnMarked([Same EXCEPT
                                   !.tt = IF f.best_move # None
                                          THEN TT_store(tt, f.zobrist, f.best_score,
                                                        f.best_move, f.depth,
                                                        IF f.alpha < f.beta THEN EXACT
                                                        ELSE LOWER_BOUND)
                                          ELSE tt],
                                f.best_score, f.best_aborted))
    /\ UNCHANGED << stack, lastOp, ttOp, ttFilled, call, lastCall >>

\* _quiescence from its entry to the capture loop: the node count and the
\* clock, stand pat, delta pruning, the captures (search.py 450-483)
QuiescenceEntered(f, s1, stand_pat, captures) ==
    LET o     == [Same EXCEPT !.search = s1]
        alpha == Max(f.alpha, stand_pat)
    IN  IF s1.qnodes % 1000 = 0 /\ Elapsed(s1)
        THEN ReturnStopped(o)
        ELSE IF stand_pat >= f.beta THEN Return(o, f.beta)
        ELSE IF stand_pat < alpha - BIG_DELTA THEN Return(o, alpha)
        ELSE IF Len(captures) = 0 THEN Return(o, stand_pat)
        ELSE [o EXCEPT !.frames =
                ReplaceTop([f EXCEPT !.pc = "loop", !.alpha = alpha,
                                     !.captures = Search_order_captures(board, captures)])]

QuiescenceEnter ==
    /\ Running("quiescence", "enter")
    /\ \E n \in { QuiescenceEntered(Top, [search EXCEPT !.qnodes = @ + 1],
                                     Search_evaluate(board),
                                     Search_get_captures(board, Moves_generate(board))) } :
         Becomes(n)
    /\ UNCHANGED << stack, lastOp, ttOp, ttFilled, call, lastCall >>

\* the next capture is made and searched (search.py 485-487)
QuiescenceMove ==
    /\ Running("quiescence", "loop")
    /\ Top.i <= Len(Top.captures)
    /\ \E made \in { Board_make_move(board, Top.captures[Top.i]) } :
         Becomes([Same EXCEPT
                    !.board  = made.board,
                    !.frames = Push([Top EXCEPT !.pc = "back", !.undo = made.undo],
                                    QuiescenceFrame(-Top.beta, -Top.alpha))])
    /\ UNCHANGED << stack, lastOp, ttOp, ttFilled, call, lastCall >>

\* the capture has been searched: it is unmade; a score of beta or more
\* returns beta, a score above alpha raises alpha (search.py 487-493)
QuiescenceBack ==
    /\ Running("quiescence", "back")
    /\ LET f     == Top
           score == -ret
           o     == [Same EXCEPT !.board = Board_unmake_move(board, f.captures[f.i], f.undo)]
       IN  \E n \in { IF score >= f.beta THEN Return(o, f.beta)
                      ELSE [o EXCEPT !.frames =
                              ReplaceTop([f EXCEPT !.pc = "loop", !.i = @ + 1,
                                                   !.best_aborted =
                                                       IF score > f.alpha
                                                       THEN f.aborted ELSE @,
                                                   !.alpha = Max(@, score)])] } :
             Becomes(n)
    /\ UNCHANGED << stack, lastOp, ttOp, ttFilled, call, lastCall >>

\* the captures are exhausted (search.py 495)
QuiescenceReturn ==
    /\ Running("quiescence", "loop")
    /\ Top.i > Len(Top.captures)
    /\ Becomes(ReturnMarked(Same, Top.alpha, Top.best_aborted))
    /\ UNCHANGED << stack, lastOp, ttOp, ttFilled, call, lastCall >>

NextSearch ==
    \/ SearchCall
    \/ IterationStart
    \/ IterationResult
    \/ SearchReturn
    \/ RootMove
    \/ RootBack
    \/ RootReturn
    \/ NegamaxEnter
    \/ NegamaxNullBack
    \/ NegamaxMove
    \/ NegamaxReducedBack
    \/ NegamaxBack
    \/ NegamaxReturn
    \/ QuiescenceEnter
    \/ QuiescenceMove
    \/ QuiescenceBack
    \/ QuiescenceReturn

SpecSearch == InitSearchCall /\ [][NextSearch]_vars

\* ------------------------------------------------------------------------
\* Parsing, construction and formatting called on their own.  Each call
\* leaves the board, the table and the search alone; lastCall records what
\* it was given and how it ended.  A result is the set of the values
\* returned: empty when the call raised.
\* ------------------------------------------------------------------------
\* the exception from_fen(fen) ends with, "none" if it returns
\* (board.py 718-781, in the order the statements run).  Only the number of
\* parts is checked; the other exceptions are those of the dictionary
\* lookup piece_map[char], the index parts[3][1] and int().
PlacementChars(fen) == UNION { Range(fen[1][r]) : r \in 1..Len(fen[1]) }

IsDigits(s) == s # << >> /\ Range(s) \subseteq Digits

PieceChars == { "P", "N", "B", "R", "Q", "K", "p", "n", "b", "r", "q", "k" }

from_fen_raises(fen) ==
    IF Len(fen) # 6 THEN "ValueError"
    ELSE IF ~ (PlacementChars(fen) \subseteq Digits \cup PieceChars) THEN "KeyError"
    ELSE IF fen[4] # << "-" >> /\ Len(fen[4]) < 2 THEN "IndexError"
    ELSE IF fen[4] # << "-" >> /\ fen[4][2] \notin Digits THEN "ValueError"
    ELSE IF ~ IsDigits(fen[5]) \/ ~ IsDigits(fen[6]) THEN "ValueError"
    ELSE "none"

WithPart(fen, i, part) == [fen EXCEPT ![i] = part]

WithRow(fen, r, row_str) == [fen EXCEPT ![1][r] = row_str]

\* the strings from_fen is called with: well-formed ones, and ones with a
\* part too few or too many, a rank of seven or nine squares, an unknown
\* placement character, an en-passant part that names no square, and
\* clocks that are not numbers
FenInputs ==
    { FEN_START, FEN_CASTLE, FEN_SPECIAL, FEN_CLOCK,
      SubSeq(FEN_START, 1, 5),
      FEN_START \o << << "x" >> >>,
      WithRow(FEN_START, 8, << "R", "N", "B", "Q", "K", "B", "N" >>),
      WithRow(FEN_CLOCK, 8, << "4", "K", "2" >>),
      WithRow(FEN_START, 3, << "9" >>),
      WithRow(FEN_CLOCK, 7, << "P", "8" >>),
      WithRow(FEN_START, 4, << "4", "x", "3" >>),
      WithRow(FEN_CLOCK, 2, << "7", "?" >>),
      WithPart(FEN_START, 4, << "e" >>),
      WithPart(FEN_START, 4, << "e", "x" >>),
      WithPart(FEN_START, 4, << "e", "0" >>),
      WithPart(FEN_START, 4, << "e", "3", "4" >>),
      WithPart(FEN_START, 5, << "x" >>),
      WithPart(FEN_START, 5, << "1", "2", "a" >>),
      WithPart(FEN_START, 6, << "1", "x" >>),
      WithPart(FEN_CLOCK, 6, << "o", "n", "e" >>) }

\* from_fen(fen), as Board(fen=...) calls it
FromFen ==
    \E fen \in FenInputs :
        \E raises \in { from_fen_raises(fen) } :
            /\ lastCall' = [fn |-> "from_fen", arg |-> fen, raises |-> raises,
                            result |-> IF raises = "none" THEN { from_fen(fen) } ELSE {}]
            /\ UNCHANGED << boardVars, ttVars, searchVars >>

\* A size given to a constructor is [type, v]: the int v, or the float
\* v / 2.  The exception TranspositionTable(size_mb) ends with
\* (transposition.py 57-61): a float has no bit_length, and a slot count
\* of 0 makes the shift count -1.  A negative int passes: its bit_length
\* is that of its magnitude.
TranspositionTable_raises(size_mb) ==
    IF size_mb.type = "float" THEN "AttributeError"
    ELSE IF bit_length((size_mb.v * 1024 * 1024) \div 16) - 1 < 0 THEN "ValueError"
    ELSE "none"

\* the largest magnitude of the sizes a table is constructed with
MaxSizeMb == 3

SizeInputs ==
    { [type |-> "int", v |-> v] : v \in (- MaxSizeMb)..MaxSizeMb }
    \cup { [type |-> "float", v |-> v] : v \in { 1, 3 } }

\* TranspositionTable(size_mb=...) (transposition.py 46-75) and
\* Search(tt_size_mb=...), which passes the size on (search.py 99, 109)
NewTable ==
    \E fn \in { "TranspositionTable", "Search" } :
        \E size_mb \in SizeInputs :
            \E raises \in { TranspositionTable_raises(size_mb) } :
                /\ lastCall' = [fn |-> fn, arg |-> size_mb, raises |-> raises,
                                result |-> IF raises = "none"
                                           THEN { TranspositionTable(size_mb.v) }
                                           ELSE {}]
                /\ UNCHANGED << boardVars, ttVars, searchVars >>

\* int(text): the text is an optional sign and digits, or int() raises
\* ValueError (uci.py 227)
IsIntText(text) ==
    /\ text # << >>
    /\ IF Head(text) \in { "-", "+" } THEN IsDigits(Tail(text)) ELSE IsDigits(text)

IntOfText(text) ==
    IF Head(text) = "-" THEN - ParseInt(Tail(text), 0)
    ELSE IF Head(text) = "+" THEN ParseInt(Tail(text), 0)
    ELSE ParseInt(text, 0)

\* the values the Hash option is set to
HashValues ==
    { << "1" >>, << "2" >>, << "3" >>, << "6", "4" >>, << "0" >>, << "-", "1" >>,
      << "-", "2" >>, << "+", "2" >>, << "a", "b", "c" >>, << "1", ".", "5" >>,
      << "1", "6", "M", "B" >> }

\* setoption name Hash value <text> (uci.py 207-232): the engine's search
\* is replaced by a new one when int() and the constructor both return; a
\* ValueError of either is swallowed and the old search stays
SetOptionHash ==
    \E text \in HashValues :
        \E made \in { IsIntText(text)
                      /\ TranspositionTable_raises([type |-> "int", v |-> IntOfText(text)])
                         = "none" } :
            /\ lastCall' = [fn |-> "setoption", arg |-> text, raises |-> "none",
                            result |-> IF made THEN { TranspositionTable(IntOfText(text)) }
                                       ELSE {}]
            /\ IF made
               THEN /\ tt' = TranspositionTable(IntOfText(text))
                    /\ ttOp' = NoTTOp
                    /\ ttFilled' = << >>
                    /\ search' = NewSearch
               ELSE UNCHANGED << ttVars, search >>
            /\ UNCHANGED << boardVars, call, frames, ret >>

\* chr(ord('a') + n) for n in 0..7
FileChar(n) ==
    CASE n = 0 -> "a" [] n = 1 -> "b" [] n = 2 -> "c" [] n = 3 -> "d"
      [] n = 4 -> "e" [] n = 5 -> "f" [] n = 6 -> "g" [] n = 7 -> "h"

\* str(n) for n >= 0
DigitChar(n) ==
    CASE n = 0 -> "0" [] n = 1 -> "1" [] n = 2 -> "2" [] n = 3 -> "3" [] n = 4 -> "4"
      [] n = 5 -> "5" [] n = 6 -> "6" [] n = 7 -> "7" [] n = 8 -> "8" [] n = 9 -> "9"

RECURSIVE Str(_)
Str(n) ==
    IF n < 0 THEN << "-" >> \o Str(- n)
    ELSE IF n < 10 THEN << DigitChar(n) >>
    ELSE Str(n \div 10) \o << DigitChar(n % 10) >>

\* FEN output (board.py 659-716).  The string is the sequence of its
\* characters.
\* pieces[piece_type][color]
PieceChar(piece_type, color) ==
    LET white == << "P", "N", "B", "R", "Q", "K" >>
        black == << "p", "n", "b", "r", "q", "k" >>
    IN  IF color = 0 THEN white[piece_type + 1] ELSE black[piece_type + 1]

\* the scan of one rank from column col with a run of empty squares pending
RECURSIVE RowString(_, _, _, _)
RowString(state, row, col, empty) ==
    IF col = 8 THEN (IF empty > 0 THEN Str(empty) ELSE << >>)
    ELSE LET p == get_piece_at(state, coords_to_square(row, col))
         IN  IF p.type < 0 THEN RowString(state, row, col + 1, empty + 1)
             ELSE (IF empty > 0 THEN Str(empty) ELSE << >>)
                  \o << PieceChar(p.type, p.color) >>
                  \o RowString(state, row, col + 1, 0)

\* sep.join(parts)
RECURSIVE Join(_, _)
Join(parts, sep) ==
    IF parts = << >> THEN << >>
    ELSE IF Len(parts) = 1 THEN parts[1]
    ELSE parts[1] \o << sep >> \o Join(Tail(parts), sep)

\* the castling field: the letters of the rights held, or "-" for none
CastlingStringNoDash(castling) ==
      (IF BitOf(castling, 0) = 1 THEN << "K" >> ELSE << >>)
   \o (IF BitOf(castling, 1) = 1 THEN << "Q" >> ELSE << >>)
   \o (IF BitOf(castling, 2) = 1 THEN << "k" >> ELSE << >>)
   \o (IF BitOf(castling, 3) = 1 THEN << "q" >> ELSE << >>)

CastlingString(castling) ==
    IF CastlingStringNoDash(castling) # << >> THEN CastlingStringNoDash(castling)
    ELSE << "-" >>

\* the en-passant field
EpString(ep) ==
    IF ep >= 0 THEN << FileChar(ColOf(ep)) >> \o Str(8 - RowOf(ep)) ELSE << "-" >>

to_fen(b) ==
    Join(<< Join([row \in 1..8 |-> RowString(b.state, row - 1, 0, 0)], "/"),
            IF unpack_side(b.state.meta) = 0 THEN << "w" >> ELSE << "b" >>,
            CastlingString(unpack_castling(b.state.meta)),
            EpString(unpack_ep_square(b.state.meta)),
            Str(unpack_halfmove(b.state.meta)),
            Str(b.fullmove) >>, " ")

\* s.split(sep): the pieces of s between the separators, empty ones kept
SplitAt(s, sep) ==
    LET cuts   == { i \in 1..Len(s) : s[i] = sep } \cup { 0, Len(s) + 1 }
        cut(k) == CHOOSE c \in cuts : Cardinality({ x \in cuts : x < c }) = k
    IN  [k \in 1..(Cardinality(cuts) - 1) |-> SubSeq(s, cut(k - 1) + 1, cut(k) - 1)]

NonEmpty(part) == part # << >>

\* parts = fen.split(); rows = parts[0].split('/') (board.py 720, 733):
\* the parts of a FEN string, the placement split into its rows
FenParts(fen_str) ==
    LET parts == SelectSeq(SplitAt(fen_str, " "), NonEmpty)
    IN  IF parts = << >> THEN parts
        ELSE [parts EXCEPT ![1] = SplitAt(parts[1], "/")]

\* UCIEngine._format_move (uci.py 177-205)
format_move(move) ==
    LET from_sq   == move % 64
        to_sq     == (move \div 64) % 64
        flags     == (move \div 4096) % 16
        from_file == FileChar(from_sq % 8)
        from_rank == Str((from_sq \div 8) + 1)
        to_file   == FileChar(to_sq % 8)
        to_rank   == Str((to_sq \div 8) + 1)
        move_str  == << from_file >> \o from_rank \o << to_file >> \o to_rank
        promo_piece == flags % 8
        promo_chars == << "n", "b", "r", "q" >>
    IN  IF BitOf(flags, 3) = 1 /\ promo_piece < 4
        THEN move_str \o << promo_chars[promo_piece + 1] >>
        ELSE move_str

\* Search.format_pv (search.py 697-723).  The board the moves are replayed
\* on is a copy made for the purpose; the text does not depend on it.
RECURSIVE format_pv(_)
format_pv(pv) ==
    IF pv = << >> THEN << >>
    ELSE LET m == decode_move(Head(pv))
             from_notation == << FileChar(m.from_sq % 8) >> \o Str(m.from_sq \div 8 + 1)
             to_notation   == << FileChar(m.to_sq % 8) >> \o Str(m.to_sq \div 8 + 1)
         IN  from_notation \o to_notation
             \o (IF Tail(pv) = << >> THEN << >> ELSE << " " >> \o format_pv(Tail(pv)))

\* the squares of the moves that are formatted
FormatSquares == { A8, H8, 8, 36, 52, E1, G1 }

\* the move flags that are formatted: those of encode_move (0..7) and one
\* with bit 3 set
MaxFlag == 8

FormatMoves ==
    { encode_move(ft[1], ft[2], fl) :
          ft \in { x \in FormatSquares \X FormatSquares : x[1] # x[2] },
          fl \in 0..MaxFlag }

\* the longest principal variation that is formatted
MaxPvLen == 2

PvMoves == { encode_move(52, 36, FLAG_NORMAL), encode_move(12, 28, FLAG_NORMAL),
             encode_move(8, A8, FLAG_PROMOTION_QUEEN),
             encode_move(E1, G1, FLAG_CASTLING_KINGSIDE) }

PvInputs == UNION { [1..n -> PvMoves] : n \in 0..MaxPvLen }

\* move_str = self._format_move(best_move)
FormatMove ==
    \E move \in FormatMoves :
        /\ lastCall' = [fn |-> "_format_move", arg |-> move, raises |-> "none",
                        result |-> { format_move(move) }]
        /\ UNCHANGED << boardVars, ttVars, searchVars >>

\* pv_str = self.format_pv(pv, board)
FormatPv ==
    \E pv \in PvInputs :
        /\ lastCall' = [fn |-> "format_pv", arg |-> pv, raises |-> "none",
                        result |-> { format_pv(pv) }]
        /\ UNCHANGED << boardVars, ttVars, searchVars >>

\* UCIEngine.__init__ (uci.py 21-24): the starting position and a search
\* with a table of 64 MB
InitCalls ==
    /\ board = from_fen(FEN_START)
    /\ stack = << >>
    /\ lastOp = NoOp
    /\ InitTT(DefaultTTSizeMb)
    /\ InitSearch
    /\ lastCall = NoLastCall

NextCalls == FromFen \/ NewTable \/ SetOptionHash \/ FormatMove \/ FormatPv

SpecCalls == InitCalls /\ [][NextCalls]_vars

\* ------------------------------------------------------------------------
\* The history table over the life of a Search object: the quiet-move
\* beta cutoffs of its searches, one after the other
\* ------------------------------------------------------------------------
\* the remaining depths of the nodes that are cut off
HistoryDepths == { 4, 8 }

\* the quiet move that causes the cutoffs: e2-e4 by White
HistoryMove == encode_move(52, 36, FLAG_NORMAL)

\* the cutoffs are followed until the entry has passed this value
MaxHistory == 14200

\* a quiet move causes a beta cutoff in a node of remaining depth depth
\* (search.py 416-429)
HistoryCutoff ==
    \E depth \in HistoryDepths :
        /\ HistoryAt(search.history_table, 0, 52, 36) <= MaxHistory
        /\ search' = [search EXCEPT
                        !.history_table = Search_update_history(@, 0, 52, 36, depth),
                        !.killer_moves = Search_store_killer(@, HistoryMove, depth)]
        /\ UNCHANGED << boardVars, ttVars, call, frames, ret, lastCall >>

NextHistory == HistoryCutoff

SpecHistory == InitCalls /\ [][NextHistory]_vars

\* ------------------------------------------------------------------------
\* Claims about the position layer
\* ------------------------------------------------------------------------
LastFlags == decode_move(lastOp.move).flags

Side(b) == unpack_side(b.state.meta)

\* C1: for every legal move m on a position reached by legal moves,
\* u := make(P, m); unmake(P, m, u) leaves the board exactly as it was before
\* the make (twelve bitboards, occupancy, metadata, hash, fullmove counter),
\* at every nesting depth.
C1_MakeUnmakeRestores ==
    lastOp.op = "unmake" => board = lastOp.prev[1]

\* an en-passant capture made below another move has been undone
C1_Witness ==
    /\ lastOp.op = "unmake"
    /\ LastFlags = FLAG_EN_PASSANT
    /\ Len(stack) = 1
    /\ board = lastOp.prev[1]

\* C3: after each make and each unmake the stored Zobrist hash equals the
\* hash recomputed from scratch from the bitboards and the metadata.
C3_HashIsRecomputedHash ==
    board.state.hash = compute_zobrist_hash(board.state.bb, board.state.meta)

\* a double pawn push has just replaced an earlier en-passant square
C3_Witness ==
    /\ lastOp.op = "make"
    /\ unpack_ep_square(lastOp.prev[1].state.meta) >= 0
    /\ unpack_ep_square(board.state.meta) >= 0
    /\ board.state.hash = compute_zobrist_hash(board.state.bb, board.state.meta)

\* C10: make_null flips the side-to-move bit and clears the en-passant
\* square and changes nothing else (castling rights, halfmove clock and the
\* piece bitboards keep their values).
C10_MakeNullFlipsSideAndClearsEp ==
    lastOp.op = "make_null" =>
        LET old == lastOp.prev[1].state
            new == board.state
        IN  /\ unpack_side(new.meta) = 1 - unpack_side(old.meta)
            /\ unpack_ep_square(new.meta) = -1
            /\ unpack_castling(new.meta) = unpack_castling(old.meta)
            /\ unpack_halfmove(new.meta) = unpack_halfmove(old.meta)
            /\ new.bb = old.bb
            /\ new.occ = old.occ

\* C11: after make_null returns, and before the matching unmake_null, the
\* stored Zobrist hash equals the hash recomputed from scratch from the
\* resulting position.
C11_NullMoveHashIsRecomputedHash ==
    lastOp.op = "make_null" =>
        board.state.hash = compute_zobrist_hash(board.state.bb, board.state.meta)

\* the castling rights of board b, as the set of their bits 0..3
\* (CASTLE_WK, CASTLE_WQ, CASTLE_BK, CASTLE_BQ)
CastlingBits(b) == { i \in 0..3 : BitOf(unpack_castling(b.state.meta), i) = 1 }

\* C12: over make and make_null a castling-rights bit changes only from set
\* to cleared: no make and no make_null sets a right that was cleared.
C12_CastlingRightsOnlyCleared ==
    lastOp.op \in { "make", "make_null" } =>
        CastlingBits(board) \subseteq CastlingBits(lastOp.prev[1])

\* the castling right (as a set of bits) that belongs to the rook's corner sq
CornerRight(sq) ==
    IF sq = H1 THEN {0} ELSE IF sq = A1 THEN {1}
    ELSE IF sq = H8 THEN {2} ELSE IF sq = A8 THEN {3} ELSE {}

\* the two rights of a side
SideRights(color) == IF color = 0 THEN {0, 1} ELSE {2, 3}

\* the rights that the move takes away on the board before, by the three
\* rules: a king moves, a rook leaves its corner, a rook is captured on its
\* corner
RightsLost(before, move) ==
    LET piece == get_piece_at(before.state, decode_move(move).from_sq)
        cap   == get_piece_at(before.state, decode_move(move).to_sq)
    IN  (IF piece.type = 5 THEN SideRights(piece.color) ELSE {})
        \cup (IF piece.type = 3
              THEN CornerRight(decode_move(move).from_sq) \cap SideRights(piece.color)
              ELSE {})
        \cup (IF cap.type = 3
              THEN CornerRight(decode_move(move).to_sq) \cap SideRights(cap.color)
              ELSE {})

\* C13: make changes castling rights only in this way: a move of a king
\* (castling included) clears both rights of the moving side; a rook moving
\* from A1, H1, A8 or H8 clears the matching right of its own side; the
\* capture of a rook on one of those squares clears the matching right of
\* the captured rook's side; every other right keeps its value.
C13_MakeUpdatesCastlingRights ==
    lastOp.op = "make" =>
        CastlingBits(board) =
            CastlingBits(lastOp.prev[1]) \ RightsLost(lastOp.prev[1], lastOp.move)

\* a rook has left its corner and captured the rook on the opposite corner:
\* one right of each side is gone, the other two are kept
C13_WitnessRookTakesRook ==
    /\ lastOp.op = "make"
    /\ CastlingBits(lastOp.prev[1]) = {0, 1, 2, 3}
    /\ decode_move(lastOp.move).from_sq = H1
    /\ decode_move(lastOp.move).to_sq = H8
    /\ CastlingBits(board) = {1, 3}

\* C14: in every position reached from a position with exactly one king per
\* side by legal make and unmake operations, those performed inside search
\* included, exactly one bit is set in the white-king bitboard and exactly
\* one in the black-king bitboard.
C14_OneKingPerSide ==
    /\ Cardinality(board.state.bb[WK]) = 1
    /\ Cardinality(board.state.bb[BK]) = 1

EpSquare == unpack_ep_square(board.state.meta)

\* the last operation was a make of a two-square pawn push, and EpSquare is
\* the square that pawn skipped
EpIsSkippedSquare ==
    lastOp.op = "make" =>
        LET from_sq == decode_move(lastOp.move).from_sq
            to_sq   == decode_move(lastOp.move).to_sq
        IN  /\ get_piece_at(lastOp.prev[1].state, from_sq).type = 0
            /\ Abs(to_sq - from_sq) = 16
            /\ ColOf(from_sq) = ColOf(to_sq)
            /\ EpSquare = (from_sq + to_sq) \div 2

\* C15 as stated: whenever the metadata holds an en-passant square, it is on
\* rank 3 when white is to move and on rank 6 when black is to move, and it
\* is the square skipped by the pawn that made a two-square push on the
\* immediately preceding move.  (Rank 3 is row 5, rank 6 is row 2.)
C15_EpRankWhite3Black6 ==
    EpSquare >= 0 =>
        /\ Side(board) = 0 => RowOf(EpSquare) = 5
        /\ Side(board) = 1 => RowOf(EpSquare) = 2
        /\ EpIsSkippedSquare

\* C15: whenever the metadata holds an en-passant square, it is on rank 6
\* when white is to move and on rank 3 when black is to move (the side to
\* move is the one that may capture), and it is the square skipped by the
\* pawn that made a two-square push on the immediately preceding move.
C15_EpRankWhite6Black3 ==
    EpSquare >= 0 =>
        /\ Side(board) = 0 => RowOf(EpSquare) = 2
        /\ Side(board) = 1 => RowOf(EpSquare) = 5
        /\ EpIsSkippedSquare

\* White has just pushed a pawn two squares: Black is to move and the
\* en-passant square is on rank 3
C15_WitnessWhitePush ==
    /\ lastOp.op = "make"
    /\ EpSquare >= 0
    /\ Side(board) = 1
    /\ RowOf(EpSquare) = 5
    /\ EpSquare = decode_move(lastOp.move).to_sq + 8

\* C16: the halfmove clock is reset to 0 by every pawn move and every
\* capture and is otherwise incremented by one, saturating at 511: at 511 a
\* further move that is neither leaves it at 511 and never wraps it to a
\* smaller value.
C16_HalfmoveClockSaturates ==
    lastOp.op = "make" =>
        LET old   == lastOp.prev[1].state
            piece == get_piece_at(old, decode_move(lastOp.move).from_sq)
            cap   == get_piece_at(old, decode_move(lastOp.move).to_sq)
        IN  unpack_halfmove(board.state.meta) =
                IF piece.type = 0 \/ cap.type >= 0 THEN 0
                ELSE Min(unpack_halfmove(old.meta) + 1, 511)

\* ------------------------------------------------------------------------
\* Claims about the transposition table
\* ------------------------------------------------------------------------
\* the slot a table operation addressed, as the operation found it
OpSlot == TTSlot(ttOp.before, ttOp.index)

Usable(slot, alpha, beta) ==
    \/ slot.node_type = EXACT
    \/ slot.node_type = LOWER_BOUND /\ slot.score >= beta
    \/ slot.node_type = UPPER_BOUND /\ slot.score <= alpha

\* C7: when the slot indexed by the hash holds the same full hash and a
\* stored depth below the requested depth, probe returns the stored best
\* move and no score (checked for slots that a store has filled with a move).
C7_ShallowEntryGivesMove ==
    ( /\ ttOp.op = "probe"
      /\ ttOp.index \in DOMAIN ttFilled
      /\ OpSlot.hash_key = ttOp.args.zobrist
      /\ OpSlot.best_move # 0
      /\ OpSlot.depth < ttOp.args.depth )
    => /\ ttOp.result.found
       /\ ~ ttOp.result.has_score
       /\ ttOp.result.best_move = OpSlot.best_move

\* C8: probe returns a score only if the slot's full hash equals the hash,
\* its stored depth is at least the requested depth and its type is exact,
\* or lower-bound with score >= beta, or upper-bound with score <= alpha; in
\* every other case it returns no score; and a score it returns is the one
\* written by the store that filled the slot.
C8_ProbeScoreIsStoredScore ==
    ttOp.op = "probe" =>
        /\ ttOp.result.has_score <=>
              ( /\ OpSlot.hash_key = ttOp.args.zobrist
                /\ OpSlot.depth >= ttOp.args.depth
                /\ Usable(OpSlot, ttOp.args.alpha, ttOp.args.beta) )
        /\ ttOp.result.has_score =>
              /\ ttOp.index \in DOMAIN ttFilled
              /\ ttFilled[ttOp.index].zobrist = ttOp.args.zobrist
              /\ ttOp.result.score = ttFilled[ttOp.index].score

Returned == call.phase = "returned"

\* the side to move of b has no legal move
NoLegalMove(b) == Len(Moves_generate(b)) = 0

\* the legal moves of b that leave the opponent in check with no legal move
MatingMoves(b) ==
    { m \in Range(Moves_generate(b)) :
        /\ NoLegalMove(Board_make_move(b, m).board)
        /\ Moves_is_check(Board_make_move(b, m).board) }

\* C2: when search(position, depth, time_limit) returns (after all its
\* iterations, on a mate score, or on the clock) the position is identical
\* to what it was when search was called: bitboards, occupancy, metadata,
\* hash and fullmove counter; with null-move pruning and quiescence enabled.
C2_SearchLeavesBoardIdentical ==
    Returned => board = call.entry_board

\* C4: when a search with a time limit is stopped by its time budget, the
\* (move, score) it returns is the result of the last iteration that ran to
\* completion, never that of an iteration during which the stop flag was
\* raised.
C4_TimeStopReturnsCompleted ==
    ( /\ Returned
      /\ call.timed
      /\ call.ended \in { "time", "stop" }
      /\ call.completed_depth > 0 )
    => /\ call.ret_move = call.completed_move
       /\ call.ret_score = call.completed_score

C6_MateInOneFound ==
    ( /\ Returned
      /\ ~ call.timed
      /\ call.depth >= 2
      /\ MatingMoves(call.entry_board) # {} )
    => /\ call.ret_move \in MatingMoves(call.entry_board)
       /\ Abs(call.ret_score) >= MATE_SCORE - 100

\* ------------------------------------------------------------------------
\* Claims about FEN input and output, configuration and UCI output
\* ------------------------------------------------------------------------
\* the number of squares a rank string covers
RECURSIVE RankSquares(_)
RankSquares(row_str) ==
    IF row_str = << >> THEN 0
    ELSE (IF Head(row_str) \in Digits THEN DigitVal(Head(row_str)) ELSE 1)
         + RankSquares(Tail(row_str))

FileChars == { "a", "b", "c", "d", "e", "f", "g", "h" }

RankChars == { "1", "2", "3", "4", "5", "6", "7", "8" }

\* the five structural errors of a FEN string
StructuralError(fen) ==
    \/ Len(fen) # 6
    \/ /\ Len(fen) = 6
       /\ \/ \E r \in 1..Len(fen[1]) : RankSquares(fen[1][r]) # 8
          \/ ~ (PlacementChars(fen) \subseteq Digits \cup PieceChars)
          \/ /\ fen[4] # << "-" >>
             /\ ~ (Len(fen[4]) = 2 /\ fen[4][1] \in FileChars /\ fen[4][2] \in RankChars)
          \/ ~ IsDigits(fen[5])
          \/ ~ IsDigits(fen[6])

\* C17: from_fen fails, and returns no position, whenever the FEN string is
\* not exactly six fields, a rank has the wrong square count, a placement
\* character is unknown, the en-passant target is malformed, or a clock is
\* not an integer.
C17_StructuralErrorFails ==
    lastCall.fn = "from_fen" /\ StructuralError(lastCall.arg) =>
        lastCall.raises # "none" /\ lastCall.result = {}

\* a size that is a positive integer
PositiveIntSize(size_mb) == size_mb.type = "int" /\ size_mb.v > 0

PositiveIntText(text) == IsIntText(text) /\ IntOfText(text) > 0

\* C18: constructing a transposition table, directly or through Search,
\* with a size that is not a positive integer raises an error and creates
\* no table; setting the UCI Hash option to such a size creates no table.
C18_InvalidSizeCreatesNoTable ==
    /\ lastCall.fn \in { "TranspositionTable", "Search" } /\ ~ PositiveIntSize(lastCall.arg) =>
           lastCall.raises # "none" /\ lastCall.result = {}
    /\ lastCall.fn = "setoption" /\ ~ PositiveIntText(lastCall.arg) =>
           lastCall.result = {}

\* the algebraic name of a square: file letter of its column, then the
\* rank, row 0 being rank 8
SquareName(sq) == << FileChar(ColOf(sq)), DigitChar(8 - RowOf(sq)) >>

PromotionLetter(flags) ==
    IF flags = FLAG_PROMOTION_QUEEN THEN << "q" >>
    ELSE IF flags = FLAG_PROMOTION_ROOK THEN << "r" >>
    ELSE IF flags = FLAG_PROMOTION_BISHOP THEN << "b" >>
    ELSE IF flags = FLAG_PROMOTION_KNIGHT THEN << "n" >>
    ELSE << >>

UciForm(move) ==
    SquareName(move % 64) \o SquareName((move \div 64) % 64)
    \o PromotionLetter(move \div 4096)

RECURSIVE UciFormPv(_)
UciFormPv(pv) ==
    IF pv = << >> THEN << >>
    ELSE UciForm(Head(pv))
         \o (IF Tail(pv) = << >> THEN << >> ELSE << " " >> \o UciFormPv(Tail(pv)))

\* C20: a move is rendered as the name of its source square, then that of
\* its destination square (square = row*8 + col, row 0 = rank 8, col 0 =
\* file a), then the promotion letter when its flag is 1 to 4 (q, r, b, n)
\* and nothing otherwise; a principal variation is its moves so rendered,
\* separated by blanks.
C20_MoveRenderedAlgebraic ==
    /\ lastCall.fn = "_format_move" => lastCall.result = { UciForm(lastCall.arg) }
    /\ lastCall.fn = "format_pv" => lastCall.result = { UciFormPv(lastCall.arg) }

\* what Board.from_fen(board.to_fen()) returns: empty when it raises
FenRoundTrip(b) ==
    LET fen == FenParts(to_fen(b))
    IN  IF from_fen_raises(fen) = "none" THEN { from_fen(fen) } ELSE {}

\* C19: for every position reachable from the initial setup or a loaded
\* FEN by legal moves, from_fen(to_fen(P)) is a position equal to P: the
\* same piece bitboards, occupancy, castling rights, en-passant square,
\* halfmove clock, side to move, Zobrist hash and fullmove counter.
C19_FenRoundTrip == FenRoundTrip(board) = { board }

\* after 1. e4 e5 (or any two double pushes) the position has castling
\* rights, an en-passant square and fullmove 2, and survives the round trip
C19_WitnessAfterDoublePush ==
    /\ lastOp.op = "make"
    /\ EpSquare >= 0
    /\ unpack_castling(board.state.meta) = CASTLE_ALL
    /\ board.fullmove = 2
    /\ FenRoundTrip(board) = { board }

\* ------------------------------------------------------------------------
\* Claims about the stop flag, the iterations and the recursion of search()
\* ------------------------------------------------------------------------
\* C21: once the stop flag is set during a search, the frames unwind: no
\* step makes a further move and calls a further child (the call stack
\* never grows again).
C21_StopFlagUnwinds ==
    [][search.stop_search => Len(frames') <= Len(frames)]_vars

\* the root search of the current iteration, while it runs
RootSearching == call.phase = "searching" /\ frames # << >> /\ frames[1].kind = "root"

\* C22: in every iteration d >= 2 the first root move searched is the best
\* move returned by iteration d - 1, in the full-window root search and in
\* the aspiration-window root search.
C22_FirstRootMoveIsPreviousBest ==
    RootSearching /\ call.current_depth >= 2 =>
        frames[1].ordered_moves[1] = call.best_move

\* a capture: the destination holds a piece of the other side, or the
\* move is an en-passant capture
IsCaptureMove(b, move) ==
    \/ get_piece_at(b.state, decode_move(move).to_sq).color = 1 - unpack_side(b.state.meta)
    \/ decode_move(move).flags = FLAG_EN_PASSANT

CaptureMoves(b) == { move \in Range(Moves_generate(b)) : IsCaptureMove(b, move) }

\* C23: the moves quiescence makes at a node are the legal captures of its
\* position, en passant included, and nothing else: no castling move and
\* no other quiet move.
C23_QuiescenceMakesCapturesOnly ==
    Running("quiescence", "loop") => Range(Top.captures) = CaptureMoves(board)

\* _negamax is at the entry of a node with remaining depth, in which the
\* side to move is in check and has no legal move
MatedNode ==
    /\ Running("negamax", "enter")
    /\ Top.depth > 0
    /\ NoLegalMove(board)
    /\ Moves_is_check(board)

\* the number of moves made between the root position and the node on top
DistanceFromRoot == Len(frames) - 1

\* C24: a node in which the side to move is checkmated returns
\* -(30000 - ply), ply being the node's distance in moves from the root, so
\* that the nearer of two mates has the larger magnitude and every mate
\* score has magnitude 29900 or more.
C24_MateScoreCountsPliesFromRoot ==
    [][MatedNode /\ Len(frames') < Len(frames) /\ ret' <= -(MATE_SCORE - 100)
         => ret' = -(MATE_SCORE - DistanceFromRoot)]_vars

\* the threshold above which a history table is halved
HistoryThreshold == 10000

\* C25: the history table is halved whenever an entry exceeds the
\* threshold, so no entry ever exceeds the threshold by more than the
\* largest increment, max_depth squared, and none leaves the range of a
\* 32-bit integer.
C25_HistoryStaysBounded ==
    \A k \in DOMAIN search.history_table :
        /\ search.history_table[k] <= HistoryThreshold + max_depth * max_depth
        /\ search.history_table[k] >= 0

\* ------------------------------------------------------------------------
\* Claims about the castling rights and the pieces they stand for
\* ------------------------------------------------------------------------
\* the home square of the king and the corner of the rook of castling right i
RightColor(i) == i \div 2

RightKingSquare(i) == IF RightColor(i) = 0 THEN E1 ELSE E8

RightRookSquare(i) ==
    IF i = 0 THEN H1 ELSE IF i = 1 THEN A1 ELSE IF i = 2 THEN H8 ELSE A8

\* right i of board b has its king at home and its rook on the corner
RightHasPieces(b, i) ==
    /\ get_piece_at(b.state, RightKingSquare(i)) = [type |-> 5, color |-> RightColor(i)]
    /\ get_piece_at(b.state, RightRookSquare(i)) = [type |-> 3, color |-> RightColor(i)]

\* the castling moves among the legal moves of board b
CastlingMoves(b) ==
    { move \in Range(Moves_generate(b)) :
        decode_move(move).flags \in { FLAG_CASTLING_KINGSIDE, FLAG_CASTLING_QUEENSIDE } }

\* the castling right that castling move move of board b uses
MoveRight(b, move) ==
    2 * unpack_side(b.state.meta)
      + (IF decode_move(move).flags = FLAG_CASTLING_KINGSIDE THEN 0 ELSE 1)

\* C26: in every position reached from a start position whose castling
\* rights agree with its pieces by make, unmake, make_null and unmake_null,
\* a set castling-right bit has its side's king on E1 / E8 and a rook of that
\* side on the corresponding corner, and every castling move of the legal
\* move list starts on the king's home square with that rook in place.
C26_CastlingRightHasKingAndRook ==
    /\ \A i \in CastlingBits(board) : RightHasPieces(board, i)
    /\ \A move \in CastlingMoves(board) :
          /\ decode_move(move).from_sq = RightKingSquare(MoveRight(board, move))
          /\ RightHasPieces(board, MoveRight(board, move))

\* ------------------------------------------------------------------------
\* Claims about what _negamax and _search_root store in the table
\* ------------------------------------------------------------------------
\* _negamax is at its store (search.py 431-434) and stores
NegamaxStores ==
    /\ \/ Running("negamax", "tail")
       \/ Running("negamax", "loop") /\ Top.i > Len(Top.ordered_moves)
    /\ Top.best_move # None

\* the entry it stores is of type EXACT
NegamaxStoresExact == NegamaxStores /\ Top.alpha < Top.beta

\* C27: whenever negamax stores an entry of type EXACT, the stored score
\* lies strictly between the alpha and the beta the node was entered with;
\* a node in which no move raised alpha above its entry value is never
\* stored as EXACT.
C27_ExactEntryIsInsideWindow ==
    NegamaxStoresExact =>
        Top.entry_alpha < Top.best_score /\ Top.best_score < Top.beta

\* _search_root / _search_root_aspiration is at its store (search.py 225-227,
\* 258-260) and stores
RootStores ==
    /\ Running("root", "loop")
    /\ Top.i > Len(Top.ordered_moves)
    /\ Top.best_move # None
    /\ Top.aspiration => Top.best_score > Top.alpha

\* C28: after the stop flag has been set, no store is performed with a score
\* derived from an aborted subtree: the 0 returned by an aborted frame never
\* reaches tt.store, directly or through an ancestor's best_score.
C28_NoStoreOfAbortedScore ==
    NegamaxStores \/ RootStores => ~ Top.best_aborted

\* ------------------------------------------------------------------------
\* Claims about the end of search()
\* ------------------------------------------------------------------------
\* the activation frames[k] of _negamax stands on a position whose side to
\* move is in check: the move that led to it gave check
FrameInCheck(k) ==
    IF frames[k].pc = "enter" THEN Moves_is_check(board) ELSE frames[k].in_check

\* the pairs caller, callee of activations of _negamax on the stack
NegamaxCalls ==
    { k \in 1..(Len(frames) - 1) :
        frames[k].kind = "negamax" /\ frames[k + 1].kind = "negamax" }

\* the activations of _quiescence that wait for the search of a capture
QuiescenceCalls ==
    { k \in 1..(Len(frames) - 1) : frames[k].kind = "quiescence" }

\* the move frames[k] waits for took a piece off the board
TookPiece(k) == frames[k].undo.cap_type # -1

PieceCount(b) == Cardinality(UnionBB(b.state.bb))

OpHashStored ==
    /\ ttOp.index \in DOMAIN ttFilled
    /\ ttFilled[ttOp.index].zobrist = ttOp.args.zobrist

\* C30: probe reports a hit (a score or a move) only for a hash that has
\* been stored since the table was constructed or last cleared; on an empty
\* table it returns nothing for every hash (0 included), every depth (depth
\* <= 0 included) and every window.
C30_NoHitForUnstoredHash ==
    ttOp.op = "probe" =>
        /\ ttOp.result.found => OpHashStored
        /\ ttFilled = << >> => ttOp.result = NoResult
====
